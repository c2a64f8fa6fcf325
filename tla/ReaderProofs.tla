---------------------------- MODULE ReaderProofs ----------------------------
(***************************************************************************)
(* Theorems about the Reader: its capacity, and what its calls answer, for *)
(* every source, setting and client.                                       *)
(***************************************************************************)
EXTENDS Reader, BufferFillProofs

(* A fill is driven by a limit that max_capacity bounds, reads into a      *)
(* slice that is not empty, and has answered nothing yet.                  *)
Driven == /\ call.op \in {"fill", "fill_amount"} \/ call.limit = maxCapacity
          /\ call.pc = "read" => buf.len < buf.cap
          /\ call.result = "none"

(***************************************************************************)
(* What every step keeps.  A task between two reads has no fill; one that  *)
(* waits for a fill waits for fill; and no task has got more than it wants.*)
(***************************************************************************)
ReaderInv == /\ FillInvariant
             /\ inner <= MAX_POSITION
             /\ maxCapacity \in Capacities
             /\ buf.cap <= maxCapacity
             /\ task \in TaskType
             /\ task.pc = "loop" => call = NoCall
             /\ task.pc = "filling" => call.op = "fill"
             /\ task.pc # "idle" => Len(task.got) <= task.want
             /\ ~Idle => Driven

(* A buffer that the reader may have. *)
Sized(b) == WellFormed(b) /\ b.cap <= maxCapacity

-----------------------------------------------------------------------------
(* Tasks. *)
LEMMA TaskFields ==
  ASSUME NEW op \in Reads \cup Moves \cup {"other"}, NEW want \in Nat
  PROVE  /\ Task(op, want) \in TaskType
         /\ Task(op, want).pc = "loop" /\ Task(op, want).got = <<>>
         /\ Task(op, want).op = op /\ Task(op, want).want = want
  BY DEF Task, TaskType

LEMMA EndedFields ==
  ASSUME NEW t \in TaskType, NEW result \in {"none", "ok", "eof", "invalid", "error"}
  PROVE  /\ Ended(t, result) \in TaskType
         /\ Ended(t, result).pc = "idle" /\ Ended(t, result).result = result
         /\ Ended(t, result).op = t.op /\ Ended(t, result).want = t.want
         /\ Ended(t, result).got = t.got
  BY DEF Ended, TaskType

LEMMA GotFields ==
  ASSUME NEW t \in TaskType, NEW got \in Seq(Nat)
  PROVE  LET u == [t EXCEPT !.got = got]
         IN  u \in TaskType /\ u.pc = t.pc /\ u.got = got /\ u.op = t.op /\ u.want = t.want
             /\ u.result = t.result
  BY DEF TaskType

(* What the source may still be asked for. *)
LEMMA SourceFacts ==
  ASSUME inner \in Nat
  PROVE  Remaining \in Nat /\ \A n \in Nat : n <= Remaining =>
           inner + n \in Nat /\ (inner <= MAX_POSITION => inner + n <= MAX_POSITION)
                             /\ (n > 0 => inner + n <= StreamLen)
  BY SourceAssumption, ReaderAssumption DEF Remaining

LEMMA ReaderFacts ==
  ASSUME ReaderInv
  PROVE  /\ FillInvariant /\ WellFormed(buf) /\ inner \in Nat /\ Remaining \in Nat
         /\ buf.vec \in Seq(Nat) /\ buf.cap \in Capacities /\ buf.cap \in Nat
         /\ buf.len \in Nat /\ buf.pos \in Nat /\ buf.pos <= buf.len /\ buf.len <= buf.cap
         /\ buf.cap = Len(buf.vec)
         /\ maxCapacity \in Capacities /\ maxCapacity \in Nat
         /\ maxCapacity <= MAX_SUPPORTED_CAPACITY /\ MAX_SUPPORTED_CAPACITY \in Nat
         /\ call \in CallType /\ task \in TaskType
  <1>1. /\ FillInvariant /\ WellFormed(buf) /\ inner \in Nat /\ call \in CallType
        /\ task \in TaskType /\ maxCapacity \in Capacities
    BY DEF ReaderInv, FillInvariant
  <1>2. /\ buf.vec \in Seq(Nat) /\ buf.cap \in Capacities /\ buf.cap \in Nat
        /\ buf.len \in Nat /\ buf.pos \in Nat /\ buf.pos <= buf.len /\ buf.len <= buf.cap
        /\ buf.cap = Len(buf.vec)
    BY <1>1, Fields
  <1>3. /\ maxCapacity \in Nat /\ maxCapacity <= MAX_SUPPORTED_CAPACITY
        /\ MAX_SUPPORTED_CAPACITY \in Nat /\ Remaining \in Nat
    BY <1>1, CapacityChunks, Ceiling, SourceFacts
  <1>. QED BY <1>1, <1>2, <1>3

-----------------------------------------------------------------------------
(* The buffers that a method leaves are within max_capacity.               *)
LEMMA ShrinkSized ==
  ASSUME NEW b, WellFormed(b)
  PROVE  WellFormed(Shrink(b)) /\ Shrink(b).cap <= b.cap
  <1>1. b.len \in Nat /\ b.cap \in Capacities /\ b.len <= b.cap /\ b.cap \in Nat
    BY Fields
  <1>2. CapUpLinear(b.len) \in Nat /\ CapUpLinear(b.len) <= b.cap
    BY <1>1, FitsData
  <1>3. CHUNK_SIZE \in Nat /\ CapUpLinear(CHUNK_SIZE) <= b.cap
    BY OneChunk
  <1>4. /\ WellFormed(Shrink(b))
        /\ Shrink(b).cap = Larger(CapUpLinear(b.len), CapUpLinear(CHUNK_SIZE))
    BY <1>3, ShrinkWellFormed DEF Shrink
  <1>. QED BY <1>2, <1>3, <1>4 DEF Larger

LEMMA PartsSized ==
  ASSUME ReaderInv
  PROVE  /\ Sized(buf) /\ Sized(Clear(buf)) /\ Sized(Shrink(buf)) /\ Sized(Discard(buf))
         /\ Sized(Compact(buf)) /\ Sized(NewBuffer) /\ Sized(KeptPart(buf))
  <1>1. WellFormed(buf) /\ buf.cap <= maxCapacity /\ buf.cap \in Nat /\ maxCapacity \in Nat
    BY ReaderFacts DEF ReaderInv
  <1>2. Sized(buf)
    BY <1>1 DEF Sized
  <1>3. Sized(Clear(buf))
    BY <1>1, ClearWellFormed DEF Sized
  <1>4. Sized(Shrink(buf))
    <2>1. WellFormed(Shrink(buf)) /\ Shrink(buf).cap <= buf.cap
      BY <1>1, ShrinkSized
    <2>2. Shrink(buf).cap \in Nat
      BY <2>1, Fields
    <2>. QED BY <1>1, <2>1, <2>2 DEF Sized
  <1>5. Sized(Discard(buf))
    <2>1. WellFormed(Clear(buf)) /\ Clear(buf).cap = buf.cap
      BY <1>1, ClearWellFormed
    <2>2. WellFormed(Discard(buf)) /\ Discard(buf).cap <= buf.cap
      BY <2>1, ShrinkSized DEF Discard
    <2>3. Discard(buf).cap \in Nat
      BY <2>2, Fields
    <2>. QED BY <1>1, <2>2, <2>3 DEF Sized
  <1>6. Sized(Compact(buf))
    <2>1. WellFormed(Compact(buf))
      BY <1>1, CompactWellFormed
    <2>2. Compact(buf).cap = buf.cap
      BY <1>1, Fields DEF Compact, BufferType
    <2>. QED BY <1>1, <2>1, <2>2 DEF Sized
  <1>7. Sized(NewBuffer)
    <2>1. CHUNK_SIZE \in Nat /\ CapUpLinear(CHUNK_SIZE) <= buf.cap
      BY <1>1, OneChunk
    <2>2. WellFormed(NewBuffer) /\ NewBuffer.cap = CapUpLinear(CHUNK_SIZE)
      BY <2>1, NewWellFormed DEF NewBuffer
    <2>3. NewBuffer.cap \in Nat
      BY <2>2, Fields
    <2>. QED BY <1>1, <2>1, <2>2, <2>3 DEF Sized
  <1>8. Sized(KeptPart(buf))
    <2>1. WellFormed(KeptPart(buf))
      BY <1>1, KeptWellFormed
    <2>2. CASE buf.pos = 0
      BY <1>2, <2>2 DEF KeptPart
    <2>3. CASE buf.pos # 0
      <3>1. buf.len \in Nat /\ buf.pos \in Nat /\ buf.pos <= buf.len /\ buf.len <= buf.cap
            /\ buf.cap \in Capacities
        BY <1>1, Fields
      <3>2. CapUpLinear(buf.len - buf.pos) <= buf.cap /\ CapUpLinear(buf.len - buf.pos) \in Nat
        BY <1>1, <3>1, FitsData
      <3>3. KeptPart(buf).cap = CapUpLinear(buf.len - buf.pos)
        <4> DEFINE n == buf.len - buf.pos
                   fresh == WithCapacity(n)
                   v == [i \in 1..Len(fresh.vec) |-> IF i <= n THEN buf.vec[buf.pos + i] ELSE fresh.vec[i]]
        <4>1. fresh = [vec |-> Resize(<<>>, CapUpLinear(n)), cap |-> CapUpLinear(n), len |-> 0, pos |-> 0]
          BY DEF WithCapacity
        <4>2. KeptPart(buf) = [fresh EXCEPT !.vec = v, !.len = n]
          BY <2>3 DEF KeptPart
        <4> HIDE DEF v
        <4>. QED BY <4>1, <4>2
      <3>. QED BY <1>1, <2>1, <3>2, <3>3 DEF Sized
    <2>. QED BY <2>2, <2>3
  <1>. QED BY <1>2, <1>3, <1>4, <1>5, <1>6, <1>7, <1>8

(* Consuming what is there does not wrap. *)
LEMMA HeldFits ==
  ASSUME ReaderInv, NEW n \in Nat, n <= buf.len - buf.pos
  PROVE  buf.pos + n <= USIZE_MAX
  <1>1. /\ buf.pos \in Nat /\ buf.len \in Nat /\ buf.cap \in Nat /\ maxCapacity \in Nat
        /\ buf.len <= buf.cap /\ buf.cap <= maxCapacity /\ maxCapacity <= MAX_SUPPORTED_CAPACITY
        /\ MAX_SUPPORTED_CAPACITY \in Nat
    BY ReaderFacts DEF ReaderInv
  <1>2. 2 * MAX_SUPPORTED_CAPACITY <= USIZE_MAX /\ USIZE_MAX \in Nat
    BY Ceiling, CapacityAssumption
  <1>. QED BY <1>1, <1>2

LEMMA SteppedSized ==
  ASSUME ReaderInv, NEW amt \in Nat
  PROVE  /\ Sized(Unconsume(buf, amt)) /\ Unconsume(buf, amt).cap = buf.cap
         /\ buf.pos + amt <= USIZE_MAX => Sized(Consume(buf, amt)) /\ Consume(buf, amt).cap = buf.cap
  <1>1. WellFormed(buf) /\ buf.cap <= maxCapacity
    BY ReaderFacts DEF ReaderInv
  <1>2. Unconsume(buf, amt).cap = buf.cap /\ Consume(buf, amt).cap = buf.cap
    BY <1>1, Fields DEF Unconsume, Consume, BufferType
  <1>3. WellFormed(Unconsume(buf, amt))
    BY <1>1, UnconsumeWellFormed
  <1>4. buf.pos + amt <= USIZE_MAX => WellFormed(Consume(buf, amt))
    BY <1>1, ConsumeWellFormed
  <1>. QED BY <1>1, <1>2, <1>3, <1>4 DEF Sized

(* What ReaderBuilder builds. *)
LEMMA Built ==
  ASSUME NEW initial \in Nat \cup {NoLimit}, NEW max \in Nat \cup {NoLimit}
  PROVE  /\ WellFormed(InitialBuffer(initial)) /\ InitialBuffer(initial).len = 0
         /\ MaxCapacity(max, initial) \in Capacities
         /\ InitialBuffer(initial).cap <= MaxCapacity(max, initial)
  <1>1. /\ initial # NoLimit => initial \in Nat
        /\ max # NoLimit => max \in Nat
        /\ CHUNK_SIZE \in Nat /\ DEFAULT_MAX_CAPACITY \in Capacities
    BY ReaderAssumption, CapacityAssumption
  <1>2. WellFormed(InitialBuffer(initial)) /\ InitialBuffer(initial).len = 0
    <2>1. CASE initial = NoLimit
      BY <1>1, <2>1, NewWellFormed DEF InitialBuffer, NewBuffer
    <2>2. CASE initial # NoLimit
      BY <1>1, <2>2, NewWellFormed DEF InitialBuffer
    <2>. QED BY <2>1, <2>2
  <1>3. InitialBuffer(initial).cap \in Capacities
    BY <1>2, Fields
  <1> DEFINE m == IF max = NoLimit THEN DEFAULT_MAX_CAPACITY ELSE CapUp(max)
  <1>4. m \in Capacities
    BY <1>1, ExponentialUp
  <1>5. MaxCapacity(max, initial) = Larger(m, InitialBuffer(initial).cap)
    BY DEF MaxCapacity
  <1> HIDE DEF m
  <1>6. m \in Nat /\ InitialBuffer(initial).cap \in Nat
    BY <1>3, <1>4, CapacityChunks
  <1>. QED BY <1>2, <1>3, <1>4, <1>5, <1>6 DEF Larger

-----------------------------------------------------------------------------
(* The invariant holds at first, and after a method that runs at once.     *)
LEMMA BuiltHolds ==
  ASSUME NEW initial \in Nat \cup {NoLimit}, NEW max \in Nat \cup {NoLimit},
         buf' = InitialBuffer(initial), maxCapacity' = MaxCapacity(max, initial),
         inner' \in Nat, inner' <= MAX_POSITION, call' = NoCall, task' \in TaskType, task'.pc = "idle"
  PROVE  ReaderInv'
  <1>1. /\ WellFormed(buf') /\ maxCapacity' \in Capacities /\ buf'.cap <= maxCapacity'
    BY Built
  <1>2. NoCall \in CallType /\ NoCall.pc = "idle" /\ NoCall.result # "panic"
    BY NoCallFields
  <1>3. FillInvariant'
    BY <1>1, <1>2, AfterReturn
  <1>. QED BY <1>1, <1>2, <1>3 DEF ReaderInv, Idle

(* A reader that has just been built, on a source that stands anywhere. *)
LEMMA Fresh ==
  ASSUME NEW initial \in Nat \cup {NoLimit}, NEW max \in Nat \cup {NoLimit},
         buf = InitialBuffer(initial), maxCapacity = MaxCapacity(max, initial),
         inner \in 0..MAX_POSITION, call = NoCall, task = Ended(Task("other", 0), "ok")
  PROVE  ReaderInv /\ buf.len = 0 /\ Quiet /\ task.op = "other"
  <1>1. /\ WellFormed(buf) /\ maxCapacity \in Capacities /\ buf.cap <= maxCapacity /\ buf.len = 0
    BY Built
  <1>2. NoCall \in CallType /\ NoCall.pc = "idle" /\ NoCall.result = "none"
    BY NoCallFields
  <1>3. inner \in Nat /\ inner <= MAX_POSITION
    BY ReaderAssumption
  <1>4. task \in TaskType /\ task.pc = "idle" /\ task.op = "other"
    <2>1. Task("other", 0) \in TaskType /\ Task("other", 0).op = "other"
      BY TaskFields
    <2>. QED BY <2>1, EndedFields
  <1>. QED BY <1>1, <1>2, <1>3, <1>4 DEF ReaderInv, FillInvariant, NoPanic, Idle, Quiet

LEMMA InitHolds == Init => ReaderInv /\ buf.len = 0 /\ Quiet /\ task.op = "other"
  <1>1. 0 \in 0..MAX_POSITION /\ Settings \subseteq Nat \cup {NoLimit}
    BY ReaderAssumption
  <1>. QED BY <1>1, Fresh DEF Init

LEMMA DoesHolds ==
  ASSUME ReaderInv, NEW b, Sized(b), NEW p \in 0..MAX_POSITION, NEW t \in TaskType,
         t.pc # "filling", t.pc # "idle" => Len(t.got) <= t.want, Does(b, p, t)
  PROVE  ReaderInv'
  <1>1. /\ buf' = b /\ inner' = p /\ task' = t /\ call' = NoCall /\ maxCapacity' = maxCapacity
    BY DEF Does
  <1>2. NoCall \in CallType /\ NoCall.pc = "idle" /\ NoCall.result # "panic"
    BY NoCallFields
  <1>3. WellFormed(buf') /\ inner' \in Nat /\ inner' <= MAX_POSITION
    BY <1>1, ReaderAssumption DEF Sized
  <1>4. FillInvariant'
    BY <1>1, <1>2, <1>3, AfterReturn
  <1>. QED BY <1>1, <1>2, <1>3, <1>4 DEF ReaderInv, Sized, Idle

(* A method that runs at once with the result ok, or another. *)
LEMMA MovedHolds ==
  ASSUME ReaderInv, NEW b, Sized(b), NEW p \in 0..MAX_POSITION,
         NEW op \in Reads \cup Moves \cup {"other"},
         NEW result \in {"none", "ok", "eof", "invalid", "error"},
         Does(b, p, Ended(Task(op, 0), result))
  PROVE  ReaderInv'
  <1>1. Task(op, 0) \in TaskType
    BY TaskFields
  <1>2. Ended(Task(op, 0), result) \in TaskType /\ Ended(Task(op, 0), result).pc = "idle"
    BY <1>1, EndedFields
  <1>. QED BY <1>2, DoesHolds

LEMMA Here == ASSUME ReaderInv PROVE inner \in 0..MAX_POSITION
  BY ReaderFacts, ReaderAssumption DEF ReaderInv

LEMMA ManageHolds ==
  ASSUME ReaderInv, Manage
  PROVE  ReaderInv'
  <1>1. /\ {"other", "clear", "discard", "take_buffer", "consume"} \subseteq Reads \cup Moves \cup {"other"}
        /\ Requests \subseteq Nat
    BY ReaderAssumption DEF Moves
  <1>2. ASSUME NEW b, Sized(b), NEW op \in {"other", "clear", "discard", "take_buffer", "consume"},
               Manages(op, b)
        PROVE  ReaderInv'
    BY <1>1, <1>2, Here, MovedHolds DEF Manages
  <1>3. CASE ShrinkCall \/ CompactCall \/ ClearCall \/ DiscardCall \/ TakeBufferCall \/ TakeConsumedCall
    BY <1>2, <1>3, PartsSized DEF ShrinkCall, CompactCall, ClearCall, DiscardCall, TakeBufferCall,
       TakeConsumedCall
  <1>4. ASSUME NEW amt \in Requests, ConsumeCall(amt)
        PROVE  ReaderInv'
    <2>1. Sized(Consume(buf, amt))
      BY <1>1, <1>4, SteppedSized DEF ConsumeCall
    <2>. QED BY <1>2, <1>4, <2>1 DEF ConsumeCall
  <1>5. ASSUME NEW n \in Requests, GetMutCall(n)
        PROVE  ReaderInv'
    <2>1. Sized(buf) /\ Remaining \in Nat
      BY PartsSized, ReaderFacts
    <2>2. n \in Nat /\ n <= Remaining /\ Does(buf, inner + n, Ended(Task("other", 0), "ok"))
      BY <1>1, <1>5, <2>1 DEF GetMutCall
    <2>3. inner + n \in 0..MAX_POSITION
      BY <2>2, Here, ReaderFacts, SourceFacts, ReaderAssumption DEF ReaderInv
    <2>. QED BY <2>1, <2>2, <2>3, MovedHolds
  <1>6. ASSUME NEW initial \in Settings, NEW max \in Settings, IntoPartsCall(initial, max)
        PROVE  ReaderInv'
    <2>1. /\ buf' = InitialBuffer(initial) /\ maxCapacity' = MaxCapacity(max, initial)
          /\ inner' = inner /\ call' = NoCall /\ task' = Ended(Task("take_buffer", 0), "ok")
      BY <1>6 DEF IntoPartsCall
    <2>2. task' \in TaskType /\ task'.pc = "idle"
      <3>1. Task("take_buffer", 0) \in TaskType
        BY <1>1, TaskFields
      <3>. QED BY <2>1, <3>1, EndedFields
    <2>3. inner' \in Nat /\ inner' <= MAX_POSITION
      BY <2>1, Here, ReaderFacts DEF ReaderInv
    <2>. QED BY <2>1, <2>2, <2>3, BuiltHolds, ReaderAssumption
  <1>. QED BY <1>3, <1>4, <1>5, <1>6 DEF Manage

LEMMA SeekHolds ==
  ASSUME ReaderInv, SeekCall
  PROVE  ReaderInv'
  <1>1. {"seek", "seek_relative"} \subseteq Reads \cup Moves \cup {"other"}
    BY DEF Moves
  <1>2. /\ Positions \subseteq 0..MAX_POSITION /\ Offsets \subseteq Int
        /\ Seekable = 0..MAX_POSITION
    BY ReaderAssumption DEF Seekable
  <1>3. Sized(buf) /\ Sized(Clear(buf)) /\ inner \in 0..MAX_POSITION
    BY PartsSized, Here
  <1>4. ASSUME NEW op \in {"seek", "seek_relative"}, NEW b, Sized(b), NEW p \in 0..MAX_POSITION,
               NEW result \in {"ok", "error"}, Moved(op, b, p, result)
        PROVE  ReaderInv'
    BY <1>1, <1>4, MovedHolds DEF Moved
  <1>5. CASE SeekFailed
    BY <1>3, <1>4, <1>5 DEF SeekFailed
  <1>6. ASSUME NEW p \in Positions, SeekAbsolute(p) PROVE ReaderInv'
    BY <1>2, <1>3, <1>4, <1>6 DEF SeekAbsolute
  <1>7. ASSUME NEW op \in {"seek", "seek_relative"}, NEW offset \in Offsets, SeekCurrent(op, offset)
        PROVE  ReaderInv'
    <2>1. CASE SeekOnce(op, offset)
      BY <1>2, <1>3, <1>4, <2>1 DEF SeekOnce
    <2>2. CASE SeekTwice(op, offset)
      BY <1>2, <1>3, <1>4, <2>2 DEF SeekTwice
    <2>3. CASE SeekHalfway(op, offset)
      BY <1>2, <1>3, <1>4, <2>3 DEF SeekHalfway
    <2>. QED BY <1>7, <2>1, <2>2, <2>3 DEF SeekCurrent
  <1>8. ASSUME NEW offset \in Offsets, SeekRelative(offset) PROVE ReaderInv'
    <2>0. offset \in Int /\ Behind \in Nat /\ Behind = buf.len - buf.pos
          /\ buf.pos \in Nat /\ buf.len \in Nat /\ buf.len <= USIZE_MAX
      <3>1. buf.len <= buf.cap /\ buf.cap <= maxCapacity /\ maxCapacity <= MAX_SUPPORTED_CAPACITY
            /\ 2 * MAX_SUPPORTED_CAPACITY <= USIZE_MAX /\ USIZE_MAX \in Nat
            /\ buf.cap \in Nat /\ maxCapacity \in Nat /\ MAX_SUPPORTED_CAPACITY \in Nat
            /\ buf.len \in Nat /\ buf.pos \in Nat /\ buf.pos <= buf.len
        BY ReaderFacts, Ceiling, CapacityAssumption DEF ReaderInv
      <3>2. buf.len <= USIZE_MAX
        BY <3>1
      <3>3. offset \in Int
        BY <1>2
      <3>. QED BY <3>1, <3>2, <3>3 DEF Behind
    <2>1. CASE 0 <= offset /\ offset <= Behind
      <3>0. offset \in Nat /\ USIZE_MAX \in Nat /\ buf.pos + offset <= USIZE_MAX
        BY <2>0, <2>1, CapacityAssumption
      <3>1. Sized(Consume(buf, offset))
        BY <3>0, SteppedSized
      <3>. QED BY <1>3, <1>4, <1>8, <2>1, <3>1 DEF SeekRelative
    <2>2. CASE ~(0 <= offset /\ offset <= Behind) /\ offset < 0 /\ -offset <= buf.pos
      <3>1. Sized(Unconsume(buf, -offset))
        BY <2>0, <2>2, SteppedSized
      <3>. QED BY <1>3, <1>4, <1>8, <2>2, <3>1 DEF SeekRelative
    <2>3. CASE ~(0 <= offset /\ offset <= Behind) /\ ~(offset < 0 /\ -offset <= buf.pos)
      BY <1>7, <1>8, <2>3 DEF SeekRelative
    <2>. QED BY <2>1, <2>2, <2>3
  <1>. QED BY <1>5, <1>6, <1>7, <1>8 DEF SeekCall

-----------------------------------------------------------------------------
(* The fills. *)
LEMMA FillStarted ==
  ASSUME ReaderInv, FillInvariant', maxCapacity' = maxCapacity,
         task' = Ended(Task("other", 0), "ok"),
         inner' <= MAX_POSITION, buf'.cap <= maxCapacity, ~Idle' => Driven'
  PROVE  ReaderInv'
  <1>1. task' \in TaskType /\ task'.pc = "idle"
    <2>1. Task("other", 0) \in TaskType
      BY TaskFields
    <2>. QED BY <2>1, EndedFields
  <1>. QED BY <1>1 DEF ReaderInv

LEMMA StartedLoop ==
  ASSUME ReaderInv, NEW op \in {"fill", "fill_while", "fill_all", "fill_until", "fill_until_str"},
         NEW limit \in {NoLimit, maxCapacity}, op = "fill" <=> limit = NoLimit,
         Fills(StartFill(op, limit))
  PROVE  ReaderInv'
  <1>1. /\ op \in Ops \ {"none", "fill_exact", "fill_amount"} /\ limit \in Nat \cup {NoLimit}
        /\ (op \in {"fill", "fill_to_end"} => limit = NoLimit)
    BY ReaderFacts DEF Ops
  <1>2. FillInvariant'
    BY <1>1, ReaderFacts, StartFillHolds DEF Fills
  <1>3. /\ call' = Called(buf, op, 0, limit) /\ buf' = buf /\ inner' = inner
        /\ maxCapacity' = maxCapacity /\ task' = Ended(Task("other", 0), "ok")
    BY DEF Fills, StartFill
  <1>4. call'.op = op /\ call'.limit = limit /\ call'.pc = "check" /\ call'.result = "none"
    BY <1>3 DEF Called
  <1>5. Driven'
    BY <1>3, <1>4 DEF Driven
  <1>. QED BY <1>2, <1>3, <1>5, FillStarted DEF ReaderInv

(* The room that fill_amount and fill_exact make is within max_capacity. *)
LEMMA AmountSized ==
  ASSUME ReaderInv, NEW amt \in Nat, ~ExceedsMax(amt)
  PROVE  LET g == GrowTargetedLinear(buf, buf.len + amt)
         IN  /\ Sized(g) /\ buf.len + amt <= g.cap /\ g.len = buf.len /\ g.pos = buf.pos
             /\ \A i \in 1..buf.len : g.vec[i] = buf.vec[i]
             /\ ~TooMuch(amt)
  <1> DEFINE g == GrowTargetedLinear(buf, buf.len + amt)
  <1>1. /\ WellFormed(buf) /\ buf.len \in Nat /\ buf.cap \in Nat /\ buf.len <= buf.cap
        /\ buf.cap <= maxCapacity /\ maxCapacity \in Capacities /\ maxCapacity \in Nat
        /\ maxCapacity <= MAX_SUPPORTED_CAPACITY /\ MAX_SUPPORTED_CAPACITY \in Nat
    BY ReaderFacts DEF ReaderInv
  <1>2. amt <= maxCapacity - buf.len
    BY <1>1 DEF ExceedsMax
  <1>3. amt <= MAX_SUPPORTED_CAPACITY - buf.len /\ ~TooMuch(amt) /\ buf.len + amt <= maxCapacity
        /\ buf.len + amt \in Nat
    BY <1>1, <1>2 DEF TooMuch
  <1>4. CapUpLinear(buf.len + amt) \in Capacities /\ CapUpLinear(buf.len + amt) <= maxCapacity
    <2>1. Smaller(buf.len + amt, MAX_SUPPORTED_CAPACITY) <= maxCapacity
      BY <1>1, <1>3 DEF Smaller
    <2>. QED BY <1>1, <1>3, <2>1, LinearUp
  <1>5. /\ WellFormed(g) /\ buf.len + amt <= g.cap /\ g.len = buf.len /\ g.pos = buf.pos
        /\ \A i \in 1..buf.len : g.vec[i] = buf.vec[i]
    BY <1>1, <1>3, RoomForAmount
  <1>6. g.cap <= maxCapacity
    <2>1. g = GrowTo(buf, CapUpLinear(buf.len + amt))
      BY DEF GrowTargetedLinear
    <2>2. g.cap = Larger(buf.cap, CapUpLinear(buf.len + amt))
      BY <1>1, <1>4, <2>1, GrowToWellFormed
    <2>3. CapUpLinear(buf.len + amt) \in Nat
      BY <1>4, CapacityChunks
    <2> HIDE DEF g
    <2>. QED BY <1>1, <1>4, <2>2, <2>3 DEF Larger
  <1>. QED BY <1>3, <1>5, <1>6 DEF Sized

LEMMA RefusedHolds ==
  ASSUME ReaderInv, NEW amt \in Nat, Fills(FillRefused(amt))
  PROVE  ReaderInv'
  <1> DEFINE c == Called(buf, "fill_amount", amt, NoLimit)
  <1>1. /\ call' = Returned(c, "invalid") /\ buf' = buf /\ inner' = inner
        /\ maxCapacity' = maxCapacity /\ task' = Ended(Task("other", 0), "ok")
    BY DEF Fills, FillRefused
  <1>2. c \in CallType
    <2>1. "fill_amount" \in Ops
      BY DEF Ops
    <2>. QED BY <2>1, ReaderFacts, CalledFields
  <1> HIDE DEF c
  <1>3. call' \in CallType /\ call'.pc = "idle" /\ call'.result = "invalid"
    BY <1>1, <1>2, ReturnedFields DEF Results
  <1>4. FillInvariant'
    BY <1>1, <1>3, ReaderFacts, AfterReturn
  <1>. QED BY <1>1, <1>3, <1>4, FillStarted DEF ReaderInv, Idle

LEMMA AmountHolds ==
  ASSUME ReaderInv, NEW amt \in Nat, ~ExceedsMax(amt), Fills(StartFillAmount(amt))
  PROVE  ReaderInv'
  <1>1. FillInvariant'
    BY ReaderFacts, StartFillAmountHolds DEF Fills
  <1>2. ~TooMuch(amt) /\ Sized(GrowTargetedLinear(buf, buf.len + amt))
    BY AmountSized
  <1>3. /\ call' = Called(buf, "fill_amount", amt, NoLimit)
        /\ buf' = GrowTargetedLinear(buf, buf.len + amt) /\ inner' = inner
        /\ maxCapacity' = maxCapacity /\ task' = Ended(Task("other", 0), "ok")
    BY <1>2 DEF Fills, StartFillAmount
  <1>4. call'.op = "fill_amount" /\ call'.pc = "check" /\ call'.result = "none"
    BY <1>3 DEF Called
  <1>. QED BY <1>1, <1>2, <1>3, <1>4, FillStarted DEF ReaderInv, Driven, Sized

LEMMA ExactHolds ==
  ASSUME ReaderInv, NEW amt \in Nat, ~ExceedsMax(amt),
         Fills(FillExactDone(amt))
           \/ \E n \in Nat, result \in {"eof", "error"} : Fills(FillExactFailed(amt, n, result))
  PROVE  ReaderInv'
  <1> DEFINE g == GrowTargetedLinear(buf, buf.len + amt)
  <1>1. FillInvariant'
    BY ReaderFacts, FillExactHolds DEF Fills
  <1>2. Sized(g) /\ buf.len + amt <= g.cap /\ g.len = buf.len
    BY AmountSized
  <1> HIDE DEF g
  <1>3. buf'.cap <= maxCapacity /\ inner' <= MAX_POSITION
    <2>1. CASE Fills(FillExactDone(amt))
      <3>1. buf' = Absorb(g, amt, inner) /\ inner' = inner + amt /\ amt <= Remaining
        BY <2>1 DEF Fills, FillExactDone, FillExactGrown, g
      <3>2. Absorb(g, amt, inner).cap = g.cap
        BY <1>2, ReaderFacts, AbsorbWellFormed DEF Sized
      <3>3. inner + amt <= MAX_POSITION
        BY <3>1, ReaderFacts, SourceFacts DEF ReaderInv
      <3>. QED BY <1>2, <3>1, <3>2, <3>3 DEF Sized
    <2>2. ASSUME NEW n \in Nat, NEW result \in {"eof", "error"},
                 Fills(FillExactFailed(amt, n, result))
          PROVE  buf'.cap <= maxCapacity /\ inner' <= MAX_POSITION
      <3>1. /\ buf' = [g EXCEPT !.vec = WriteAt(g.vec, g.len, n, inner)] /\ inner' = inner + n
            /\ n <= Remaining
        BY <2>2, ReaderFacts DEF Fills, FillExactFailed, FillExactGrown, g
      <3>2. [g EXCEPT !.vec = WriteAt(g.vec, g.len, n, inner)].cap = g.cap
        BY <1>2, ReaderFacts, SpoiltWellFormed DEF Sized
      <3>3. inner + n <= MAX_POSITION
        BY <3>1, ReaderFacts, SourceFacts DEF ReaderInv
      <3>. QED BY <1>2, <3>1, <3>2, <3>3 DEF Sized
    <2>. QED BY <2>1, <2>2
  <1>4. Idle'
    <2> DEFINE c == Called(buf, "fill_exact", amt, NoLimit)
               d == [c EXCEPT !.total = amt]
    <2>1. c \in CallType
      <3>1. "fill_exact" \in Ops
        BY DEF Ops
      <3>. QED BY <3>1, ReaderFacts, CalledFields
    <2> HIDE DEF c
    <2>2. d \in CallType
      BY <2>1 DEF CallType
    <2> HIDE DEF d
    <2>3. call' = Returned(d, "complete") \/ call' = Returned(c, "eof") \/ call' = Returned(c, "error")
      BY DEF Fills, FillExactDone, FillExactFailed, c, d
    <2>4. {"complete", "eof", "error"} \subseteq Results
      BY DEF Results
    <2>5. /\ Returned(d, "complete").pc = "idle" /\ Returned(c, "eof").pc = "idle"
          /\ Returned(c, "error").pc = "idle"
      BY <2>1, <2>2, <2>4, ReturnedFields
    <2>. QED BY <2>3, <2>5 DEF Idle
  <1>. QED BY <1>1, <1>3, <1>4, FillStarted DEF Fills

LEMMA FillCallHolds ==
  ASSUME ReaderInv, FillCall
  PROVE  ReaderInv'
  <1>1. maxCapacity # NoLimit /\ Requests \subseteq Nat
    BY ReaderFacts, NoLimitAssumption, ReaderAssumption
  <1>2. CASE Fills(FillOnce) \/ Fills(FillWhile) \/ Fills(FillToEnd) \/ Fills(FillUntil) \/ Fills(FillUntilStr)
    BY <1>1, <1>2, StartedLoop DEF FillOnce, FillWhile, FillToEnd, FillUntil, FillUntilStr
  <1>3. ASSUME NEW amt \in Requests, Fills(FillAmount(amt)) PROVE ReaderInv'
    <2>1. CASE Fills(FillRefused(amt))
      BY <1>1, <2>1, RefusedHolds
    <2>2. CASE ~ExceedsMax(amt) /\ Fills(StartFillAmount(amt))
      BY <1>1, <2>2, AmountHolds
    <2>. QED BY <1>3, <2>1, <2>2 DEF FillAmount, Fills
  <1>4. ASSUME NEW amt \in Requests, Fills(FillExact(amt)) PROVE ReaderInv'
    <2>1. CASE Fills(FillRefused(amt))
      BY <1>1, <2>1, RefusedHolds
    <2>2. CASE /\ ~ExceedsMax(amt)
               /\ \/ Fills(FillExactDone(amt))
                  \/ \E n \in 0..amt : \/ Fills(FillExactFailed(amt, n, "eof"))
                                       \/ Fills(FillExactFailed(amt, n, "error"))
      <3>1. amt \in Nat /\ \A n \in 0..amt : n \in Nat
        BY <1>1
      <3>. QED BY <2>2, <3>1, ExactHolds
    <2>. QED BY <1>4, <2>1, <2>2 DEF FillExact, Fills
  <1>. QED BY <1>2, <1>3, <1>4 DEF FillCall

-----------------------------------------------------------------------------
(* The reads. *)
LEMMA RunBytes ==
  ASSUME NEW p \in Nat, NEW n \in Nat
  PROVE  Run(p, n) \in Seq(Nat) /\ Len(Run(p, n)) = n
  <1>1. Run(p, n) \in [1..n -> Nat]
    BY DEF Run
  <1>. QED BY <1>1, Vector

(* The first n unconsumed bytes. *)
LEMMA HeldBytes ==
  ASSUME ReaderInv, NEW n \in Nat, n <= buf.len - buf.pos
  PROVE  /\ Unconsumed(buf) \in Seq(Nat) /\ Len(Unconsumed(buf)) = buf.len - buf.pos
         /\ \A i \in 1..(buf.len - buf.pos) : Unconsumed(buf)[i] = buf.vec[buf.pos + i]
         /\ SubSeq(Unconsumed(buf), 1, n) \in Seq(Nat)
         /\ Len(SubSeq(Unconsumed(buf), 1, n)) = n
         /\ \A i \in 1..n : SubSeq(Unconsumed(buf), 1, n)[i] = buf.vec[buf.pos + i]
  <1>1. /\ buf.vec \in Seq(Nat) /\ buf.len \in Nat /\ buf.pos \in Nat /\ buf.pos <= buf.len
        /\ buf.len <= Len(buf.vec)
    BY ReaderFacts
  <1>2. /\ Unconsumed(buf) \in Seq(Nat) /\ Len(Unconsumed(buf)) = buf.len - buf.pos
        /\ \A i \in 1..(buf.len - buf.pos) : Unconsumed(buf)[i] = buf.vec[buf.pos + i]
    <2> DEFINE m == buf.len - buf.pos
    <2>1. m \in Nat /\ buf.pos + m = buf.len
      BY <1>1
    <2>2. Unconsumed(buf) = SubSeq(buf.vec, buf.pos + 1, buf.pos + m)
      BY <2>1 DEF Unconsumed
    <2> HIDE DEF m
    <2>3. buf.pos + m <= Len(buf.vec)
      BY <1>1, <2>1
    <2>4. /\ SubSeq(buf.vec, buf.pos + 1, buf.pos + m) \in Seq(Nat)
          /\ Len(SubSeq(buf.vec, buf.pos + 1, buf.pos + m)) = m
          /\ \A i \in 1..m : SubSeq(buf.vec, buf.pos + 1, buf.pos + m)[i] = buf.vec[buf.pos + i]
      BY <1>1, <2>1, <2>3, Stretch
    <2>. QED BY <2>2, <2>4 DEF m
  <1> DEFINE u == Unconsumed(buf)
             m == buf.len - buf.pos
  <1>3. u \in Seq(Nat) /\ Len(u) = m /\ m \in Nat /\ n <= m
    BY <1>1, <1>2
  <1>4. \A i \in 1..m : u[i] = buf.vec[buf.pos + i]
    BY <1>2
  <1> HIDE DEF u, m
  <1>5. /\ SubSeq(u, 1, n) \in Seq(Nat) /\ Len(SubSeq(u, 1, n)) = n
        /\ \A i \in 1..n : SubSeq(u, 1, n)[i] = u[i]
    BY <1>3
  <1>6. \A i \in 1..n : SubSeq(u, 1, n)[i] = buf.vec[buf.pos + i]
    BY <1>3, <1>4, <1>5
  <1>. QED BY <1>3, <1>4, <1>5, <1>6 DEF u, m

LEMMA RestBytes ==
  ASSUME ReaderInv, NEW n \in Nat
  PROVE  /\ Rest(n) \in Seq(Nat) /\ Len(Rest(n)) = buf.len - buf.pos + n
         /\ \A i \in 1..(buf.len - buf.pos) : Rest(n)[i] = buf.vec[buf.pos + i]
         /\ \A i \in 1..n : Rest(n)[buf.len - buf.pos + i] = inner + i
  <1>1. /\ buf.len - buf.pos \in Nat /\ inner \in Nat
    BY ReaderFacts
  <1>2. /\ Unconsumed(buf) \in Seq(Nat) /\ Len(Unconsumed(buf)) = buf.len - buf.pos
        /\ \A i \in 1..(buf.len - buf.pos) : Unconsumed(buf)[i] = buf.vec[buf.pos + i]
    BY <1>1, HeldBytes
  <1>3. Run(inner, n) \in Seq(Nat) /\ Len(Run(inner, n)) = n /\ \A i \in 1..n : Run(inner, n)[i] = inner + i
    <2>1. Run(inner, n) \in Seq(Nat) /\ Len(Run(inner, n)) = n
      BY <1>1, RunBytes
    <2>2. \A i \in 1..n : Run(inner, n)[i] = inner + i
      BY DEF Run
    <2>. QED BY <2>1, <2>2
  <1> DEFINE u == Unconsumed(buf)
             r == Run(inner, n)
             m == buf.len - buf.pos
  <1>4. Rest(n) = u \o r
    BY DEF Rest
  <1>5. u \in Seq(Nat) /\ r \in Seq(Nat) /\ Len(u) = m /\ Len(r) = n /\ m \in Nat
    BY <1>1, <1>2, <1>3
  <1>6. \A i \in 1..m : u[i] = buf.vec[buf.pos + i]
    BY <1>2
  <1>7. \A i \in 1..n : r[i] = inner + i
    BY <1>3
  <1> HIDE DEF u, r, m
  <1>8. /\ u \o r \in Seq(Nat) /\ Len(u \o r) = m + n
        /\ \A i \in 1..m : (u \o r)[i] = u[i]
        /\ \A i \in 1..n : (u \o r)[m + i] = r[i]
    <2>1. u \o r \in Seq(Nat) /\ Len(u \o r) = m + n
      BY <1>5
    <2>2. \A i \in 1..m : (u \o r)[i] = u[i]
      BY <1>5
    <2>3. \A i \in 1..n : (u \o r)[m + i] = r[i]
      BY <1>5, SMTT(30)
    <2>. QED BY <2>1, <2>2, <2>3
  <1>. QED BY <1>4, <1>6, <1>7, <1>8 DEF m

(* What a task is once it has received some bytes. *)
LEMMA ReceivedTask ==
  ASSUME ReaderInv, task.pc # "idle", NEW bytes \in Seq(Nat), Len(bytes) <= Wanted
  PROVE  /\ Received(bytes) \in TaskType
         /\ Received(bytes).got = task.got \o bytes
         /\ Received(bytes).op = task.op
         /\ Received(bytes).pc \in {"idle", "loop"}
         /\ Len(Received(bytes).got) <= Received(bytes).want
  <1> DEFINE t == [task EXCEPT !.got = task.got \o bytes, !.pc = "loop"]
  <1>1. task \in TaskType /\ task.got \in Seq(Nat) /\ task.want \in Nat
    BY ReaderFacts DEF TaskType
  <1>2. task.got \o bytes \in Seq(Nat) /\ Len(task.got \o bytes) = Len(task.got) + Len(bytes)
    BY <1>1
  <1>3. /\ t \in TaskType /\ t.pc = "loop" /\ t.got = task.got \o bytes /\ t.op = task.op
        /\ t.want = task.want
    BY <1>1, <1>2 DEF TaskType
  <1>4. Received(bytes) \in {Ended(t, "ok"), Ended(t, "eof"), t}
    BY DEF Received
  <1> HIDE DEF t
  <1>5. Len(task.got \o bytes) <= task.want
    BY <1>1, <1>2 DEF Wanted
  <1>6. /\ Ended(t, "ok") \in TaskType /\ Ended(t, "ok").pc = "idle" /\ Ended(t, "ok").got = t.got
        /\ Ended(t, "ok").op = t.op /\ Ended(t, "ok").want = t.want
    BY <1>3, EndedFields
  <1>7. /\ Ended(t, "eof") \in TaskType /\ Ended(t, "eof").pc = "idle" /\ Ended(t, "eof").got = t.got
        /\ Ended(t, "eof").op = t.op /\ Ended(t, "eof").want = t.want
    BY <1>3, EndedFields
  <1>. QED BY <1>3, <1>4, <1>5, <1>6, <1>7

LEMMA StartReadingHolds ==
  ASSUME ReaderInv, StartReading
  PROVE  ReaderInv'
  <1>1. Requests \subseteq Nat /\ 0 \in Nat /\ {"read", "read_exact", "fill_buf"} \subseteq Reads
    BY ReaderAssumption DEF Reads
  <1>2. Sized(buf) /\ inner \in 0..MAX_POSITION
    BY PartsSized, Here
  <1>3. ASSUME NEW op \in {"read", "read_exact", "fill_buf"}, NEW want \in Nat, StartRead(op, want)
        PROVE  ReaderInv'
    <2>1. /\ Task(op, want) \in TaskType /\ Task(op, want).pc = "loop"
          /\ Len(Task(op, want).got) = 0 /\ Task(op, want).want = want
      BY <1>1, <1>3, TaskFields
    <2>. QED BY <1>2, <1>3, <2>1, DoesHolds DEF StartRead
  <1>4. ASSUME NEW want \in Requests, ReadExactHeld(want)
        PROVE  ReaderInv'
    <2>1. want \in Nat /\ want <= buf.len - buf.pos
      BY <1>1, <1>4 DEF ReadExactHeld
    <2>2. SubSeq(Unconsumed(buf), 1, want) \in Seq(Nat)
      BY <2>1, HeldBytes
    <2> DEFINE e == Ended(Task("read_exact", want), "ok")
               t == [e EXCEPT !.got = SubSeq(Unconsumed(buf), 1, want)]
    <2>3. e \in TaskType /\ e.pc = "idle"
      <3>1. Task("read_exact", want) \in TaskType
        BY <1>1, <2>1, TaskFields
      <3>. QED BY <3>1, EndedFields
    <2>4. Does(Consume(buf, want), inner, t)
      BY <1>4 DEF ReadExactHeld
    <2> HIDE DEF e
    <2>5. t \in TaskType /\ t.pc = "idle"
      BY <2>2, <2>3, GotFields
    <2> HIDE DEF t
    <2>6. Sized(Consume(buf, want))
      <3>1. buf.pos + want <= USIZE_MAX
        BY <2>1, HeldFits
      <3>. QED BY <2>1, <3>1, SteppedSized
    <2>. QED BY <1>2, <2>4, <2>5, <2>6, DoesHolds
  <1>. QED BY <1>1, <1>3, <1>4 DEF StartReading

LEMMA ReadAllHolds ==
  ASSUME ReaderInv, ReadAll
  PROVE  ReaderInv'
  <1>1. {"read_to_end", "read_to_string"} \subseteq Reads
    BY DEF Reads
  <1>2. Sized(buf) /\ Sized(Clear(buf)) /\ inner \in 0..MAX_POSITION
    BY PartsSized, Here
  <1>3. CASE ReserveFailed
    BY <1>1, <1>2, <1>3, MovedHolds DEF ReserveFailed
  <1>4. ASSUME NEW n \in 0..StreamLen, n <= Remaining,
               NEW op \in {"read_to_end", "read_to_string"},
               NEW result \in {"ok", "error", "invalid"}, NEW got \in {Rest(n), <<>>},
               Does(Clear(buf), inner + n, [Ended(Task(op, 0), result) EXCEPT !.got = got])
        PROVE  ReaderInv'
    <2>1. n \in Nat
      BY SourceAssumption
    <2>2. inner + n \in 0..MAX_POSITION
      <3>1. inner \in Nat /\ inner <= MAX_POSITION
        BY ReaderFacts DEF ReaderInv
      <3>2. inner + n \in Nat /\ inner + n <= MAX_POSITION
        BY <1>4, <2>1, <3>1, SourceFacts
      <3>. QED BY <3>2, ReaderAssumption
    <2>3. got \in Seq(Nat)
      <3>1. Rest(n) \in Seq(Nat) /\ <<>> \in Seq(Nat)
        BY <2>1, RestBytes
      <3>. QED BY <1>4, <3>1
    <2> DEFINE e == Ended(Task(op, 0), result)
               t == [e EXCEPT !.got = got]
    <2>4. e \in TaskType /\ e.pc = "idle"
      <3>1. Task(op, 0) \in TaskType
        BY <1>1, TaskFields
      <3>. QED BY <3>1, EndedFields
    <2>5. Does(Clear(buf), inner + n, t)
      BY <1>4
    <2> HIDE DEF e
    <2>6. t \in TaskType /\ t.pc = "idle"
      BY <2>3, <2>4, GotFields
    <2> HIDE DEF t
    <2>. QED BY <1>2, <2>2, <2>5, <2>6, DoesHolds
  <1>5. ASSUME NEW n \in 0..StreamLen, NEW result \in {"ok", "error"}, ReadToEnd(n, result)
        PROVE  ReaderInv'
    BY <1>4, <1>5 DEF ReadToEnd
  <1>6. ASSUME NEW n \in 0..StreamLen, NEW result \in {"ok", "error"},
               NEW valid \in BOOLEAN, NEW wasEmpty \in BOOLEAN, ReadToString(n, result, valid, wasEmpty)
        PROVE  ReaderInv'
    BY <1>4, <1>6 DEF ReadToString
  <1>. QED BY <1>3, <1>5, <1>6 DEF ReadAll

-----------------------------------------------------------------------------
(* A step of a fill keeps its arguments, and takes from the source only    *)
(* what is there.                                                          *)
LEMMA FillStepCall ==
  ASSUME FillInvariant, FillStep
  PROVE  /\ ~Idle /\ call'.op = call.op /\ call'.limit = call.limit /\ lost' = lost
         /\ call'.first = call.first /\ call'.amt = call.amt
         /\ call'.pc = "read" => PrepareRead \/ (call.pc = "read" /\ buf' = buf)
         /\ ~Idle' => call'.result = call.result
         /\ \E n \in Nat : n <= Remaining /\ inner' = inner + n
  <1>1. call \in CallType /\ inner \in Nat /\ Remaining \in Nat /\ WellFormed(buf)
    BY SourceFacts DEF FillInvariant
  <1>2. ~Idle /\ lost' = lost
    BY DEF FillStep, Finish, Abandoned, Capped, PrepareRead, ReadInterrupted, ReadFailed,
       ReadNothing, ReadBytes, fillVars, Idle
  <1>3. CASE Finish \/ Abandoned \/ Capped \/ ReadFailed \/ ReadNothing
    <2>1. PICK result \in Results : call' = Returned(call, result)
      BY <1>3 DEF Finish, Abandoned, Capped, ReadFailed, ReadNothing, Results
    <2>2. /\ call'.pc = "idle" /\ call'.op = call.op /\ call'.limit = call.limit
          /\ call'.first = call.first /\ call'.amt = call.amt
      BY <1>1, <2>1, ReturnedFields
    <2>3. inner' = inner + 0 /\ 0 <= Remaining
      BY <1>1, <1>3 DEF Finish, Abandoned, Capped, ReadFailed, ReadNothing
    <2>. QED BY <1>2, <2>2, <2>3 DEF Idle
  <1>4. CASE PrepareRead
    <2>1. \/ \E k : call' = [call EXCEPT !.pc = "read", !.check = k]
          \/ call' = Returned(call, "panic")
      BY <1>4 DEF PrepareRead
    <2>2. /\ call'.op = call.op /\ call'.limit = call.limit
          /\ call'.first = call.first /\ call'.amt = call.amt
          /\ ~Idle' => call'.result = call.result
      BY <1>1, <2>1 DEF Returned, CallType, Idle
    <2>3. inner' = inner + 0 /\ 0 <= Remaining
      BY <1>1, <1>4 DEF PrepareRead
    <2>. QED BY <1>2, <1>4, <2>2, <2>3
  <1>5. CASE ReadInterrupted
    <2>1. inner' = inner + 0 /\ 0 <= Remaining /\ call' = call /\ buf' = buf /\ call.pc = "read"
      BY <1>1, <1>5 DEF ReadInterrupted, fillVars
    <2>. QED BY <1>2, <2>1
  <1>6. ASSUME NEW n \in 1..StreamLen, ReadBytes(n)
        PROVE  /\ call'.op = call.op /\ call'.limit = call.limit /\ call'.pc # "read"
               /\ call'.first = call.first /\ call'.amt = call.amt
               /\ (~Idle' => call'.result = call.result)
               /\ n \in Nat /\ n <= Remaining /\ inner' = inner + n
    <2> DEFINE c == [call EXCEPT !.total = call.total + n, !.pc = "check"]
    <2>1. /\ c.op = call.op /\ c.limit = call.limit /\ c.pc = "check" /\ c.result = call.result
          /\ c.first = call.first /\ c.amt = call.amt
      BY <1>1 DEF CallType
    <2>2. call' = Returned(c, "complete") \/ call' = c
      BY <1>6 DEF ReadBytes
    <2>3. /\ Returned(c, "complete").pc = "idle" /\ Returned(c, "complete").op = call.op
          /\ Returned(c, "complete").limit = call.limit
          /\ Returned(c, "complete").first = call.first /\ Returned(c, "complete").amt = call.amt
      BY <1>1 DEF Returned, CallType
    <2> HIDE DEF c
    <2>4. n \in Nat /\ n <= Remaining /\ inner' = inner + n
      <3>1. buf.cap \in Nat /\ buf.len \in Nat /\ n \in Nat
        BY <1>1, Fields, SourceAssumption
      <3>. QED BY <1>1, <1>6, <3>1 DEF ReadBytes, Smaller
    <2>. QED BY <2>1, <2>2, <2>3, <2>4 DEF Idle
  <1>. QED BY <1>2, <1>3, <1>4, <1>5, <1>6 DEF FillStep

(* What the limit of a fill allows is within max_capacity. *)
LEMMA DrivenLimit ==
  ASSUME ReaderInv, ~Idle
  PROVE  /\ GrowthLimit # NoLimit
         /\ Larger(buf.cap, CapUpLinear(GrowthLimit)) <= maxCapacity
         /\ call.op = "fill" => Larger(buf.cap, CapUpLinear(GrowthLimit)) = buf.cap
  <1>1. GrowthLimit \in {buf.cap, maxCapacity} /\ (call.op = "fill" => GrowthLimit = buf.cap)
    BY DEF ReaderInv, Driven, GrowthLimit
  <1>2. /\ buf.cap \in Capacities /\ maxCapacity \in Capacities /\ buf.cap <= maxCapacity
        /\ buf.cap \in Nat /\ maxCapacity \in Nat
    BY ReaderFacts DEF ReaderInv
  <1>3. CapUpLinear(GrowthLimit) = GrowthLimit /\ GrowthLimit # NoLimit
    BY <1>1, <1>2, Aligned, NoLimitAssumption
  <1>. QED BY <1>1, <1>2, <1>3 DEF Larger

LEMMA FillStepReader ==
  ASSUME ReaderInv, FillStep, UNCHANGED <<maxCapacity, task>>
  PROVE  ReaderInv'
  <1>1. /\ FillInvariant /\ inner \in Nat /\ maxCapacity \in Nat
        /\ call.op = call'.op /\ call'.limit = call.limit /\ ~Idle
        /\ call'.pc = "read" => PrepareRead \/ (call.pc = "read" /\ buf' = buf)
        /\ ~Idle' => call'.result = "none"
    BY ReaderFacts, FillStepCall DEF ReaderInv, Driven
  <1>2. FillInvariant'
    BY <1>1, FillStepHolds
  <1>3. inner' <= MAX_POSITION
    <2>1. PICK n \in Nat : n <= Remaining /\ inner' = inner + n
      BY <1>1, FillStepCall
    <2>. QED BY <1>1, <2>1, SourceFacts DEF ReaderInv
  <1>4. GrowthLimit # NoLimit /\ Larger(buf.cap, CapUpLinear(GrowthLimit)) <= maxCapacity
    BY <1>1, DrivenLimit
  <1>5. buf'.cap <= maxCapacity
    <2>1. buf'.cap <= Larger(buf.cap, CapUpLinear(GrowthLimit))
      BY <1>1, <1>4, FillStepCapacity
    <2>2. buf'.cap \in Nat
      BY <1>2, Fields DEF FillInvariant
    <2>3. buf.cap \in Nat /\ CapUpLinear(GrowthLimit) \in Nat
      <3>1. GrowthLimit \in Nat
        BY <1>1, <1>4, LimitType
      <3>. QED BY <3>1, ReaderFacts, LinearUp, CapacityChunks
    <2>. QED BY <1>1, <1>4, <2>1, <2>2, <2>3 DEF Larger
  <1>6. call'.pc = "read" => buf'.len < buf'.cap
    <2>1. PrepareRead => buf'.len < buf'.cap
      BY <1>1, <1>4, PrepareReadCapacity
    <2>2. call.pc = "read" => buf.len < buf.cap
      BY <1>1 DEF ReaderInv, Driven
    <2>. QED BY <1>1, <2>1, <2>2
  <1>7. task.pc # "loop"
    BY <1>1, NoCallFields DEF ReaderInv, Idle
  <1>. QED BY <1>1, <1>2, <1>3, <1>5, <1>6, <1>7 DEF ReaderInv, Driven

(* A step of a task, which leaves the buffer as it is or empties it, or    *)
(* consumes a part of it.                                                  *)
LEMMA TaskStep ==
  ASSUME ReaderInv, Sized(buf'), maxCapacity' = maxCapacity,
         inner' \in Nat, inner' <= MAX_POSITION, task' \in TaskType, Idle,
         call' = NoCall \/ (call' = call /\ task'.pc = "idle"),
         task'.pc # "filling", task'.pc # "idle" => Len(task'.got) <= task'.want
  PROVE  ReaderInv'
  <1>1. WellFormed(buf') /\ buf'.cap <= maxCapacity'
    BY DEF Sized
  <1>2. call' \in CallType /\ call'.pc = "idle" /\ call'.result # "panic"
    BY NoCallFields, ReaderFacts DEF Idle, ReaderInv, FillInvariant, NoPanic
  <1>3. FillInvariant'
    BY <1>1, <1>2, AfterReturn
  <1>. QED BY <1>1, <1>2, <1>3 DEF ReaderInv, Idle

LEMMA RefillHolds ==
  ASSUME ReaderInv, Refill
  PROVE  ReaderInv'
  <1>1. WellFormed(Clear(buf)) /\ Clear(buf).cap <= maxCapacity
    BY PartsSized DEF Sized
  <1>2. /\ buf' = Clear(buf) /\ call' = Called(Clear(buf), "fill", 0, NoLimit) /\ inner' = inner
        /\ maxCapacity' = maxCapacity /\ task' = [task EXCEPT !.pc = "filling"] /\ task.pc = "loop"
    BY DEF Refill
  <1>3. /\ task' \in TaskType /\ task'.pc = "filling" /\ task'.got = task.got /\ task'.want = task.want
    BY <1>2, ReaderFacts DEF TaskType
  <1> DEFINE c == Called(Clear(buf), "fill", 0, NoLimit)
  <1>4. c \in CallType
    <2>1. "fill" \in Ops /\ 0 \in Nat /\ NoLimit \in Nat \cup {NoLimit}
      BY DEF Ops
    <2>. QED BY <1>1, <2>1, CalledFields
  <1>5. /\ c.pc = "check" /\ c.op = "fill" /\ c.start = Clear(buf).cap /\ c.limit = NoLimit
        /\ c.first = Clear(buf).len /\ c.total = 0 /\ c.result = "none"
    BY DEF Called
  <1> HIDE DEF c
  <1>6. call' = c
    BY <1>2 DEF c
  <1>7. Clear(buf).cap \in Capacities /\ Clear(buf).cap \in Nat /\ Clear(buf).len \in Nat
    BY <1>1, Fields
  <1>8. FillInvariant'
    BY <1>1, <1>2, <1>4, <1>5, <1>6, <1>7, ReaderFacts DEF FillInvariant, Running, NoPanic
  <1>9. Driven'
    BY <1>5, <1>6 DEF Driven
  <1>. QED BY <1>1, <1>2, <1>3, <1>5, <1>6, <1>8, <1>9 DEF ReaderInv

LEMMA ReadDirectHolds ==
  ASSUME ReaderInv, NEW n \in 0..StreamLen, ReadDirect(n)
  PROVE  ReaderInv'
  <1>1. /\ task.pc = "loop" /\ n \in Nat /\ inner \in Nat /\ Remaining \in Nat /\ call = NoCall
        /\ task \in TaskType /\ Len(task.got) <= task.want
    BY SourceAssumption, ReaderFacts DEF ReadDirect, Bypasses, ReaderInv
  <1>2. Wanted \in Nat
    BY <1>1 DEF Wanted, TaskType
  <1>3. /\ n <= Remaining /\ n <= Wanted /\ buf' = Clear(buf) /\ inner' = inner + n
        /\ task' = Received(Run(inner, n)) /\ call' = call /\ maxCapacity' = maxCapacity
    BY <1>1, <1>2 DEF ReadDirect, Smaller
  <1>4. Run(inner, n) \in Seq(Nat) /\ Len(Run(inner, n)) <= Wanted
    BY <1>1, <1>3, RunBytes
  <1>5. /\ task' \in TaskType /\ task'.pc \in {"idle", "loop"} /\ Len(task'.got) <= task'.want
    BY <1>1, <1>3, <1>4, ReceivedTask
  <1>6. inner' \in Nat /\ inner' <= MAX_POSITION
    BY <1>1, <1>3, SourceFacts DEF ReaderInv
  <1>7. Sized(buf')
    BY <1>3, PartsSized
  <1>8. Idle
    BY <1>1, NoCallFields DEF Idle
  <1>. QED BY <1>1, <1>3, <1>5, <1>6, <1>7, <1>8, TaskStep

LEMMA CopyOutHolds ==
  ASSUME ReaderInv, CopyOut
  PROVE  ReaderInv' /\ buf'.cap = buf.cap
  <1> DEFINE n == IF task.op = "fill_buf" THEN 0 ELSE Smaller(Wanted, buf.len - buf.pos)
             bytes == SubSeq(Unconsumed(buf), 1, n)
  <1>1. /\ task.pc # "idle" /\ task \in TaskType /\ Len(task.got) <= task.want
        /\ buf.len \in Nat /\ buf.pos \in Nat /\ buf.pos <= buf.len
    BY ReaderFacts DEF CopyOut, ReaderInv
  <1>2. Wanted \in Nat
    BY <1>1 DEF Wanted, TaskType
  <1>3. /\ buf' = Consume(buf, n) /\ task' = Received(bytes) /\ call' = NoCall
        /\ inner' = inner /\ maxCapacity' = maxCapacity
    BY DEF CopyOut
  <1>4. n \in Nat /\ n <= Wanted /\ n <= buf.len - buf.pos
    BY <1>1, <1>2 DEF Smaller
  <1> HIDE DEF n
  <1>5. bytes \in Seq(Nat) /\ Len(bytes) = n
    BY <1>4, HeldBytes
  <1> HIDE DEF bytes
  <1>6. /\ task' \in TaskType /\ task'.pc \in {"idle", "loop"} /\ Len(task'.got) <= task'.want
    BY <1>1, <1>3, <1>4, <1>5, ReceivedTask
  <1>7. Sized(buf') /\ buf'.cap = buf.cap
    <2>1. buf.pos + n <= USIZE_MAX
      BY <1>4, HeldFits
    <2>. QED BY <1>3, <1>4, <2>1, SteppedSized
  <1>8. Idle
    <2>1. call \in CallType
      BY ReaderFacts
    <2>2. task.pc = "loop" => Idle
      BY NoCallFields DEF ReaderInv, Idle
    <2>3. ~Idle => call.result \notin {"complete", "eof"}
      BY DEF ReaderInv, Driven
    <2>. QED BY <2>2, <2>3 DEF CopyOut
  <1>. QED BY <1>3, <1>6, <1>7, <1>8, ReaderFacts, TaskStep DEF ReaderInv

LEMMA WorkHolds ==
  ASSUME ReaderInv, Work
  PROVE  ReaderInv'
  <1>1. CASE FillStep /\ UNCHANGED <<maxCapacity, task>>
    BY <1>1, FillStepReader
  <1>2. ASSUME NEW interrupted \in BOOLEAN, ReadDirectFailed(interrupted)
        PROVE  ReaderInv'
    <2>1. /\ task.pc = "loop" /\ call = NoCall /\ task \in TaskType /\ Len(task.got) <= task.want
          /\ buf' = Clear(buf) /\ inner' = inner /\ call' = call /\ maxCapacity' = maxCapacity
          /\ task' = task \/ task' = Ended(task, "error")
      BY <1>2, ReaderFacts DEF ReadDirectFailed, Bypasses, ReaderInv
    <2>2. /\ task' \in TaskType /\ task'.pc # "filling"
          /\ task'.pc # "idle" => Len(task'.got) <= task'.want
      BY <2>1, EndedFields
    <2>3. Sized(buf') /\ inner' \in Nat /\ inner' <= MAX_POSITION /\ Idle
      BY <2>1, PartsSized, ReaderFacts, NoCallFields DEF ReaderInv, Idle
    <2>. QED BY <2>1, <2>2, <2>3, TaskStep
  <1>3. CASE RefillFailed
    <2>1. /\ buf' = buf /\ inner' = inner /\ call' = call /\ maxCapacity' = maxCapacity
          /\ task' = Ended(task, "error") /\ call.result # "none"
      BY <1>3 DEF RefillFailed, fillVars
    <2>2. task' \in TaskType /\ task'.pc = "idle"
      BY <2>1, ReaderFacts, EndedFields
    <2>3. Idle
      BY <2>1 DEF ReaderInv, Driven
    <2>4. Sized(buf') /\ inner' \in Nat /\ inner' <= MAX_POSITION
      BY <2>1, PartsSized, ReaderFacts DEF ReaderInv
    <2>. QED BY <2>1, <2>2, <2>3, <2>4, TaskStep
  <1>. QED BY <1>1, <1>2, <1>3, ReadDirectHolds, RefillHolds, CopyOutHolds DEF Work

LEMMA NextHolds ==
  ASSUME ReaderInv, [Next]_vars
  PROVE  ReaderInv'
  <1>1. CASE UNCHANGED vars
    BY <1>1 DEF vars, ReaderInv, FillInvariant, Running, Driven, NoPanic, Idle
  <1>. QED BY <1>1, ManageHolds, FillCallHolds, StartReadingHolds, ReadAllHolds, SeekHolds, WorkHolds
           DEF Next

(* The invariant of the reader holds in every state. *)
THEOREM ReaderInvHolds == Spec => []ReaderInv
  BY InitHolds, NextHolds, PTL DEF Spec

(***************************************************************************)
(* The reader's buffer keeps the invariant of Buffer and never outgrows    *)
(* max_capacity, whatever replaces it and however a fill grows it.         *)
(***************************************************************************)
THEOREM CapacityBoundedHolds == Spec => []CapacityBounded
  <1>1. ReaderInv => CapacityBounded
    BY ReaderFacts DEF ReaderInv, CapacityBounded
  <1>. QED BY <1>1, ReaderInvHolds, PTL

(* No fill of a reader reaches unreachable!() or slices out of range. *)
THEOREM ReaderNoPanicHolds == Spec => []NoPanic
  <1>1. ReaderInv => NoPanic
    BY DEF ReaderInv, FillInvariant
  <1>. QED BY <1>1, ReaderInvHolds, PTL

-----------------------------------------------------------------------------
(* The one read of fill leaves the capacity as it is. *)
LEMMA FillKeepsCapacity ==
  ASSUME ReaderInv, FillStep, call.op = "fill"
  PROVE  buf'.cap = buf.cap
  <1>1. /\ FillInvariant /\ WellFormed(buf) /\ inner \in Nat /\ buf.cap \in Nat /\ ~Idle
    BY ReaderFacts, FillStepCall
  <1>2. CASE PrepareRead
    <2>1. /\ GrowthLimit # NoLimit /\ Larger(buf.cap, CapUpLinear(GrowthLimit)) = buf.cap
          /\ GrowthLimit \in Nat \cup {NoLimit}
      BY <1>1, DrivenLimit, LimitType
    <2>2. buf'.cap <= buf.cap
      BY <1>1, <1>2, <2>1, PrepareReadCapacity
    <2>3. buf' = GrownForRead(buf, GrowthLimit)
      BY <1>2 DEF PrepareRead
    <2>4. WellFormed(GrownForRead(buf, GrowthLimit)) /\ buf.cap <= GrownForRead(buf, GrowthLimit).cap
      BY <1>1, <2>1, GrownWellFormed
    <2>5. buf'.cap \in Nat
      BY <2>3, <2>4, Fields
    <2>. QED BY <1>1, <2>2, <2>3, <2>4, <2>5
  <1>3. CASE Finish \/ Abandoned \/ Capped \/ ReadFailed \/ ReadInterrupted \/ ReadNothing
    BY <1>3 DEF Finish, MayStop, Open, Abandoned, Capped, ReadFailed, ReadInterrupted, ReadNothing,
       fillVars
  <1>4. ASSUME NEW n \in 1..StreamLen, ReadBytes(n)
        PROVE  buf'.cap = buf.cap
    <2>1. n \in Nat
      BY SourceAssumption
    <2>2. buf' = Absorb(buf, n, inner) /\ buf.len + n <= buf.cap
      BY <1>1, <1>4, <2>1, ReadFits DEF ReadBytes
    <2>3. Absorb(buf, n, inner).cap = buf.cap
      BY <1>1, <2>1, <2>2, AbsorbWellFormed
    <2>. QED BY <2>2, <2>3
  <1>. QED BY <1>2, <1>3, <1>4 DEF FillStep

(* No step of a read changes the capacity: neither the clearing before a    *)
(* refill or a bypass, nor the refill, nor the copy.                        *)
LEMMA WorkKeepsCapacity ==
  ASSUME ReaderInv, Work, task.pc # "idle"
  PROVE  buf'.cap = buf.cap
  <1>2. WellFormed(buf) /\ Clear(buf).cap = buf.cap
    BY ReaderFacts, ClearWellFormed
  <1>3. CASE FillStep
    <2>1. ~Idle /\ task \in TaskType
      BY <1>3, ReaderFacts, FillStepCall
    <2>2. task.pc = "filling"
      BY <2>1, NoCallFields DEF ReaderInv, Idle, TaskType
    <2>. QED BY <1>3, <2>2, FillKeepsCapacity DEF ReaderInv
  <1>4. CASE (\E n \in 0..StreamLen : ReadDirect(n)) \/ Refill \/ RefillFailed
             \/ \E interrupted \in BOOLEAN : ReadDirectFailed(interrupted)
    BY <1>2, <1>4 DEF ReadDirect, Refill, RefillFailed, ReadDirectFailed, fillVars
  <1>5. CASE CopyOut
    BY <1>5, CopyOutHolds
  <1>. QED BY <1>2, <1>3, <1>4, <1>5 DEF Work

(* Nor does a call that is no read pass for one. *)
LEMMA CallsKeepCapacity ==
  ASSUME ReaderInv, Manage \/ StartReading \/ ReadAll \/ SeekCall
  PROVE  task'.op \in Reads => buf'.cap = buf.cap
  <1> DEFINE Good == task'.op \in Reads => buf'.cap = buf.cap
  <1>1. WellFormed(buf) /\ Clear(buf).cap = buf.cap
    BY ReaderFacts, ClearWellFormed
  <1>2. ASSUME NEW b, NEW p, NEW op, NEW result, op \notin Reads, Does(b, p, Ended(Task(op, 0), result))
        PROVE  Good
    <2>1. task'.op = op
      BY <1>2 DEF Does, Ended, Task
    <2>. QED BY <1>2, <2>1
  <1>3. ASSUME NEW b, NEW p, NEW t, b.cap = buf.cap, Does(b, p, t)
        PROVE  Good
    BY <1>3 DEF Does
  <1>4. \A op \in Moves \cup {"other"} : op \notin Reads
    BY DEF Moves, Reads
  <1> SUFFICES Good
    OBVIOUS
  <1> HIDE DEF Good
  <1>5. ASSUME NEW op \in Moves \cup {"other"}, NEW b, Manages(op, b)
        PROVE  Good
    BY <1>2, <1>4, <1>5 DEF Manages
  <1>6. CASE Manage
    <2>1. ASSUME NEW initial, NEW max, IntoPartsCall(initial, max)
          PROVE  Good
      <3>1. task'.op = "take_buffer"
        BY <2>1 DEF IntoPartsCall, Ended, Task
      <3>. QED BY <3>1 DEF Good, Reads
    <2>2. ASSUME NEW n, GetMutCall(n) PROVE Good
      BY <1>3, <2>2 DEF GetMutCall
    <2>3. ASSUME NEW amt, ConsumeCall(amt) PROVE Good
      BY <1>5, <2>3 DEF ConsumeCall, Moves
    <2>4. CASE \/ ShrinkCall \/ CompactCall \/ ClearCall \/ DiscardCall
               \/ TakeBufferCall \/ TakeConsumedCall
      BY <1>5, <2>4 DEF ShrinkCall, CompactCall, ClearCall, DiscardCall, TakeBufferCall,
         TakeConsumedCall, Moves
    <2>. QED BY <1>6, <2>1, <2>2, <2>3, <2>4 DEF Manage
  <1>7. CASE StartReading
    <2>1. ASSUME NEW op, NEW want, StartRead(op, want) PROVE Good
      BY <1>3, <2>1 DEF StartRead
    <2>2. ASSUME NEW want, ReadExactHeld(want) PROVE Good
      <3>1. Consume(buf, want).cap = buf.cap
        BY ReaderFacts, Fields DEF Consume, BufferType
      <3>. QED BY <1>3, <2>2, <3>1 DEF ReadExactHeld
    <2>. QED BY <1>7, <2>1, <2>2 DEF StartReading
  <1>8. CASE ReadAll
    <2>1. CASE ReserveFailed
      BY <1>3, <2>1 DEF ReserveFailed
    <2>2. ASSUME NEW n, NEW result, ReadToEnd(n, result) PROVE Good
      BY <1>1, <1>3, <2>2 DEF ReadToEnd
    <2>3. ASSUME NEW n, NEW result, NEW valid, NEW wasEmpty, ReadToString(n, result, valid, wasEmpty)
          PROVE  Good
      BY <1>1, <1>3, <2>3 DEF ReadToString
    <2>. QED BY <1>8, <2>1, <2>2, <2>3 DEF ReadAll
  <1>9. ASSUME NEW op \in Moves, NEW b, NEW p, NEW result, Moved(op, b, p, result)
        PROVE  Good
    BY <1>2, <1>4, <1>9 DEF Moved
  <1>10. ASSUME NEW op \in Moves, NEW offset, SeekCurrent(op, offset)
         PROVE  Good
    BY <1>9, <1>10 DEF SeekCurrent, SeekOnce, SeekTwice, SeekHalfway
  <1>11. CASE SeekCall
    <2>1. "seek" \in Moves /\ "seek_relative" \in Moves
      BY DEF Moves
    <2>2. CASE SeekFailed
      BY <1>9, <2>1, <2>2 DEF SeekFailed
    <2>3. ASSUME NEW p, SeekAbsolute(p) PROVE Good
      BY <1>9, <2>1, <2>3 DEF SeekAbsolute
    <2>4. ASSUME NEW offset, SeekRelative(offset) PROVE Good
      BY <1>9, <1>10, <2>1, <2>4 DEF SeekRelative
    <2>. QED BY <1>10, <1>11, <2>1, <2>2, <2>3, <2>4 DEF SeekCall
  <1>. QED BY <1>6, <1>7, <1>8, <1>11

-----------------------------------------------------------------------------
(***************************************************************************)
(* A task that has not ended is a read without an answer.  What it knows   *)
(* while it waits for the fill that it runs: the buffer was empty, so that *)
(* a fill that completes has brought something.                            *)
(***************************************************************************)
Waiting == /\ task.pc # "idle" => task.result = "none" /\ task.op \in Reads
           /\ ~Idle /\ task.pc = "idle" => task.op = "other"
           /\ task.pc = "filling" => /\ buf.pos = 0
                                     /\ ~Idle => buf.len = 0
                                     /\ call.result = "complete" => buf.len > 0

(* The calls that run at once, and those that only begin a task. *)
LEMMA QuickStep ==
  ASSUME Manage \/ StartReading \/ ReadAll \/ SeekCall
  PROVE  /\ Quiet /\ call' = NoCall /\ task'.pc \in {"idle", "loop"}
         /\ task'.pc = "loop" => task'.result = "none" /\ task'.op \in Reads
         /\ task'.op = "read" => task'.result = "none"
         /\ task'.op = "read_exact" => task'.result \in {"none", "ok"}
  <1> DEFINE Good == /\ Quiet /\ call' = NoCall /\ task'.pc \in {"idle", "loop"}
                     /\ task'.pc = "loop" => task'.result = "none" /\ task'.op \in Reads
                     /\ task'.op = "read" => task'.result = "none"
                     /\ task'.op = "read_exact" => task'.result \in {"none", "ok"}
  <1>1. ASSUME NEW b, NEW p, NEW op, NEW result, op \notin {"read", "read_exact"},
               Does(b, p, Ended(Task(op, 0), result))
        PROVE  Good
    <2>1. Quiet /\ call' = NoCall /\ task' = Ended(Task(op, 0), result)
      BY <1>1 DEF Does
    <2>2. Ended(Task(op, 0), result).pc = "idle" /\ Ended(Task(op, 0), result).op = op
      BY DEF Ended, Task
    <2>. QED BY <1>1, <2>1, <2>2
  <1>2. ASSUME NEW b, NEW p, NEW t, Does(b, p, t),
               t.pc = "idle", t.op # "read", t.op = "read_exact" => t.result = "ok"
        PROVE  Good
    BY <1>2 DEF Does
  <1>3. ASSUME NEW op \in Reads, NEW want, StartRead(op, want)
        PROVE  Good
    <2>1. Quiet /\ call' = NoCall /\ task' = Task(op, want)
      BY <1>3 DEF StartRead, Does
    <2>2. Task(op, want).pc = "loop" /\ Task(op, want).result = "none" /\ Task(op, want).op = op
      BY DEF Task
    <2>. QED BY <2>1, <2>2
  <1> SUFFICES Good
    OBVIOUS
  <1> HIDE DEF Good
  <1>4. ASSUME NEW b, NEW op, op \notin {"read", "read_exact"}, Manages(op, b)
        PROVE  Good
    <2>1. Does(b, inner, Ended(Task(op, 0), "ok"))
      BY <1>4 DEF Manages
    <2>. QED BY <1>1, <1>4, <2>1
  <1>5. CASE Manage
    <2>1. ASSUME NEW initial, NEW max, IntoPartsCall(initial, max)
          PROVE  Good
      <3>1. Quiet /\ call' = NoCall /\ task' = Ended(Task("take_buffer", 0), "ok")
        BY <2>1 DEF IntoPartsCall
      <3>2. /\ Ended(Task("take_buffer", 0), "ok").pc = "idle"
            /\ Ended(Task("take_buffer", 0), "ok").op = "take_buffer"
        BY DEF Ended, Task
      <3>. QED BY <3>1, <3>2 DEF Good
    <2>2. ASSUME NEW n, GetMutCall(n) PROVE Good
      <3>1. Does(buf, inner + n, Ended(Task("other", 0), "ok"))
        BY <2>2 DEF GetMutCall
      <3>. QED BY <1>1, <3>1
    <2>3. ASSUME NEW amt, ConsumeCall(amt) PROVE Good
      <3>1. Manages("consume", Consume(buf, amt))
        BY <2>3 DEF ConsumeCall
      <3>. QED BY <1>4, <3>1
    <2>4. CASE ShrinkCall
      BY <1>4, <2>4 DEF ShrinkCall
    <2>5. CASE CompactCall
      BY <1>4, <2>5 DEF CompactCall
    <2>6. CASE ClearCall
      BY <1>4, <2>6 DEF ClearCall
    <2>7. CASE DiscardCall
      BY <1>4, <2>7 DEF DiscardCall
    <2>8. CASE TakeBufferCall
      BY <1>4, <2>8 DEF TakeBufferCall
    <2>9. CASE TakeConsumedCall
      BY <1>4, <2>9 DEF TakeConsumedCall
    <2>. QED BY <1>5, <2>1, <2>2, <2>3, <2>4, <2>5, <2>6, <2>7, <2>8, <2>9 DEF Manage
  <1>6. CASE StartReading
    <2>1. ASSUME NEW want, ReadExactHeld(want) PROVE Good
      <3> DEFINE got == SubSeq(Unconsumed(buf), 1, want)
                 t == [Ended(Task("read_exact", want), "ok") EXCEPT !.got = got]
      <3>1. Does(Consume(buf, want), inner, t)
        BY <2>1 DEF ReadExactHeld
      <3>2. t.pc = "idle" /\ t.op = "read_exact" /\ t.result = "ok"
        BY DEF Ended, Task
      <3> HIDE DEF t, got
      <3>. QED BY <1>2, <3>1, <3>2
    <2>2. {"read", "read_exact", "fill_buf"} \subseteq Reads
      BY DEF Reads
    <2>. QED BY <1>3, <1>6, <2>1, <2>2 DEF StartReading
  <1>7. CASE ReadAll
    <2>1. CASE ReserveFailed
      <3>1. Does(buf, inner, Ended(Task("read_to_end", 0), "error"))
        BY <2>1 DEF ReserveFailed
      <3>. QED BY <1>1, <3>1
    <2>2. ASSUME NEW n, NEW result, ReadToEnd(n, result) PROVE Good
      <3> DEFINE t == [Ended(Task("read_to_end", 0), result) EXCEPT !.got = Rest(n)]
      <3>1. Does(Clear(buf), inner + n, t)
        BY <2>2 DEF ReadToEnd
      <3>2. t.pc = "idle" /\ t.op = "read_to_end"
        BY DEF Ended, Task
      <3> HIDE DEF t
      <3>. QED BY <1>2, <3>1, <3>2
    <2>3. ASSUME NEW n, NEW result, NEW valid, NEW wasEmpty, ReadToString(n, result, valid, wasEmpty)
          PROVE  Good
      <3> DEFINE got == IF valid /\ (result = "ok" \/ wasEmpty) THEN Rest(n) ELSE <<>>
                 answer == IF result = "ok" /\ ~valid THEN "invalid" ELSE result
                 t == [Ended(Task("read_to_string", 0), answer) EXCEPT !.got = got]
      <3>1. Does(Clear(buf), inner + n, t)
        BY <2>3 DEF ReadToString
      <3>2. t.pc = "idle" /\ t.op = "read_to_string"
        BY DEF Ended, Task
      <3> HIDE DEF t, got, answer
      <3>. QED BY <1>2, <3>1, <3>2
    <2>. QED BY <1>7, <2>1, <2>2, <2>3 DEF ReadAll
  <1>8. ASSUME NEW op, op \notin {"read", "read_exact"}, NEW b, NEW p, NEW result,
               Moved(op, b, p, result)
        PROVE  Good
    <2>1. Does(b, p, Ended(Task(op, 0), result))
      BY <1>8 DEF Moved
    <2>. QED BY <1>1, <1>8, <2>1
  <1>9. ASSUME NEW op, op \notin {"read", "read_exact"}, NEW offset, SeekCurrent(op, offset)
        PROVE  Good
    <2>1. CASE SeekOnce(op, offset)
      BY <1>8, <1>9, <2>1 DEF SeekOnce
    <2>2. CASE SeekTwice(op, offset)
      BY <1>8, <1>9, <2>2 DEF SeekTwice
    <2>3. CASE SeekHalfway(op, offset)
      BY <1>8, <1>9, <2>3 DEF SeekHalfway
    <2>. QED BY <1>9, <2>1, <2>2, <2>3 DEF SeekCurrent
  <1>10. CASE SeekCall
    <2>1. CASE SeekFailed
      BY <1>8, <2>1 DEF SeekFailed
    <2>2. ASSUME NEW p, SeekAbsolute(p) PROVE Good
      BY <1>8, <2>2 DEF SeekAbsolute
    <2>3. ASSUME NEW offset, SeekRelative(offset) PROVE Good
      BY <1>8, <1>9, <2>3 DEF SeekRelative
    <2>4. ASSUME NEW offset, SeekCurrent("seek", offset) PROVE Good
      BY <1>9, <2>4
    <2>. QED BY <1>10, <2>1, <2>2, <2>3, <2>4 DEF SeekCall
  <1>. QED BY <1>5, <1>6, <1>7, <1>10

(* A fill that the client starts. *)
LEMMA FillCallStep ==
  ASSUME ReaderInv, FillCall
  PROVE  /\ task'.pc = "idle" /\ task'.op = "other"
         /\ call'.result \in {"none", "invalid", "complete", "eof", "error"}
         /\ call'.result = "complete" => call'.op = "fill_exact"
         /\ call'.result = "eof" => call'.op = "fill_exact" /\ Remaining' = 0
         /\ call'.result = "capped" => FALSE
  <1>1. task'.pc = "idle" /\ task'.op = "other"
    BY DEF FillCall, Fills, Ended, Task
  <1> DEFINE Good == /\ call'.result \in {"none", "invalid", "complete", "eof", "error"}
                     /\ call'.result = "complete" => call'.op = "fill_exact"
                     /\ call'.result = "eof" => call'.op = "fill_exact" /\ Remaining' = 0
  <1>2. ASSUME NEW op, NEW limit, StartFill(op, limit) PROVE Good
    BY <1>2 DEF StartFill, Called
  <1>3. ASSUME NEW amt, FillRefused(amt) PROVE Good
    <2> DEFINE c == Called(buf, "fill_amount", amt, NoLimit)
    <2>1. call' = Returned(c, "invalid")
      BY <1>3 DEF FillRefused
    <2>2. Returned(c, "invalid").result = "invalid"
      BY DEF Called, Returned
    <2> HIDE DEF c
    <2>. QED BY <2>1, <2>2
  <1>4. ASSUME NEW amt, StartFillAmount(amt) PROVE Good
    <2> DEFINE c == Called(buf, "fill_amount", amt, NoLimit)
    <2>1. call' = Returned(c, "invalid") \/ call' = c
      BY <1>4 DEF StartFillAmount
    <2>2. Returned(c, "invalid").result = "invalid" /\ c.result = "none"
      BY DEF Called, Returned
    <2> HIDE DEF c
    <2>. QED BY <2>1, <2>2
  <1>5. ASSUME NEW amt, FillExactDone(amt) PROVE Good
    <2> DEFINE d == [Called(buf, "fill_exact", amt, NoLimit) EXCEPT !.total = amt]
    <2>1. call' = Returned(d, "complete")
      BY <1>5 DEF FillExactDone
    <2>2. Returned(d, "complete").result = "complete" /\ Returned(d, "complete").op = "fill_exact"
      BY DEF Called, Returned
    <2> HIDE DEF d
    <2>. QED BY <2>1, <2>2
  <1>6. ASSUME NEW amt \in Nat, NEW n \in 0..amt, NEW result \in {"eof", "error"},
               FillExactFailed(amt, n, result)
        PROVE  Good
    <2>1. call'.result = result /\ call'.op = "fill_exact"
      BY <1>6 DEF FillExactFailed, Called, Returned
    <2>2. result = "eof" => Remaining' = 0
      <3>1. result = "eof" => inner' = inner + n /\ n = Remaining
        BY <1>6 DEF FillExactFailed
      <3>. QED BY <3>1, ReaderFacts, SourceAssumption DEF Remaining
    <2>. QED BY <2>1, <2>2
  <1> HIDE DEF Good
  <1>7. Requests \subseteq Nat
    BY ReaderAssumption
  <1>8. Good
    BY <1>2, <1>3, <1>4, <1>5, <1>6, <1>7 DEF FillCall, Fills, FillOnce, FillWhile, FillToEnd,
       FillUntil, FillUntilStr, FillAmount, FillExact
  <1>. QED BY <1>1, <1>8 DEF Good

(* How the fill of a reader goes on: what its answers say of the source    *)
(* and of the buffer.                                                      *)
LEMMA FillStepOutcome ==
  ASSUME ReaderInv, FillStep
  PROVE  /\ call'.op = call.op
         /\ call'.result = "eof" => Remaining' = 0
         /\ call.op = "fill_all" /\ call'.result \in {"complete", "eof", "capped"} =>
              Remaining' = 0 \/ buf'.len = maxCapacity
         /\ call.op = "fill" /\ buf.pos = 0 /\ buf.len = 0 =>
              /\ buf'.pos = 0
              /\ ~Idle' => buf'.len = 0
              /\ call'.result = "complete" => buf'.len > 0
  <1>1. /\ FillInvariant /\ WellFormed(buf) /\ inner \in Nat /\ call \in CallType /\ ~Idle
        /\ call.result = "none" /\ call'.op = call.op
        /\ buf.len \in Nat /\ buf.cap \in Nat /\ buf.len <= buf.cap /\ maxCapacity \in Nat
        /\ buf.cap <= maxCapacity
    BY ReaderFacts, FillStepCall DEF ReaderInv, Driven
  <1> DEFINE Good == /\ call'.result = "eof" => Remaining' = 0
                     /\ call.op = "fill_all" /\ call'.result \in {"complete", "eof", "capped"} =>
                          Remaining' = 0 \/ buf'.len = maxCapacity
                     /\ call.op = "fill" /\ buf.pos = 0 /\ buf.len = 0 =>
                          /\ buf'.pos = 0
                          /\ ~Idle' => buf'.len = 0
                          /\ call'.result = "complete" => buf'.len > 0
  <1> SUFFICES Good
    BY <1>1
  <1>2. CASE Finish
    <2>1. call' = Returned(call, "complete") /\ call.op \notin {"fill", "fill_all"}
      BY <1>2 DEF Finish, MayStop, Open
    <2>2. call'.result = "complete"
      BY <1>1, <2>1 DEF Returned, CallType
    <2>. QED BY <2>1, <2>2
  <1>3. CASE Abandoned
    <2>1. call' = Returned(call, "error") /\ call.op \notin {"fill", "fill_all"}
      BY <1>3 DEF Abandoned, Open
    <2>2. call'.result = "error"
      BY <1>1, <2>1 DEF Returned, CallType
    <2>. QED BY <2>1, <2>2
  <1>4. CASE Capped
    <2>1. /\ \E r \in {"complete", "panic", "capped"} : call' = Returned(call, r)
          /\ IsCapped(buf, GrowthLimit) /\ buf' = buf
      BY <1>4 DEF Capped
    <2>2. call'.pc = "idle" /\ call'.result # "eof"
      BY <1>1, <2>1 DEF Returned, CallType
    <2>3. GrowthLimit \in Nat /\ GrowthLimit # NoLimit
      BY <1>1, DrivenLimit, LimitType
    <2>4. buf.len = buf.cap /\ buf.cap >= CapUpLinear(GrowthLimit)
      BY <1>1, <2>1, <2>3, CappedFull DEF IsFull
    <2>5. ~(call.op = "fill" /\ buf.len = 0)
      <3>1. buf.cap > 0
        BY ReaderFacts, CapacityChunks, CapacityAssumption
      <3>. QED BY <2>4, <3>1
    <2>6. call.op = "fill_all" => buf.len = maxCapacity
      <3>1. call.op = "fill_all" => GrowthLimit = maxCapacity
        BY <1>1 DEF ReaderInv, Driven, GrowthLimit
      <3>2. CapUpLinear(maxCapacity) = maxCapacity
        BY ReaderFacts, Aligned
      <3>. QED BY <1>1, <2>4, <3>1, <3>2
    <2>. QED BY <2>1, <2>2, <2>5, <2>6
  <1>5. CASE PrepareRead
    <2>1. /\ buf' = GrownForRead(buf, GrowthLimit)
          /\ \/ \E k : call' = [call EXCEPT !.pc = "read", !.check = k]
             \/ call' = Returned(call, "panic")
      BY <1>5 DEF PrepareRead
    <2>2. call'.result \in {"none", "panic"}
      BY <1>1, <2>1 DEF Returned, CallType
    <2>3. buf'.len = buf.len /\ buf'.pos = buf.pos
      BY <1>1, <2>1, LimitType, GrownWellFormed
    <2>. QED BY <2>2, <2>3
  <1>6. CASE ReadInterrupted
    BY <1>1, <1>6 DEF ReadInterrupted, fillVars
  <1>7. CASE ReadFailed
    <2>1. call' = Returned(call, "error") /\ buf' = buf
      BY <1>7 DEF ReadFailed
    <2>2. call'.result = "error" /\ call'.pc = "idle"
      BY <1>1, <2>1 DEF Returned, CallType
    <2>. QED BY <2>1, <2>2 DEF Idle
  <1>8. CASE ReadNothing
    <2>1. /\ call' = Returned(call, "eof") /\ call.pc = "read" /\ inner' = inner
          /\ Remaining = 0 \/ buf.len = buf.cap
          /\ call.op = "fill" => buf' = buf
      BY <1>8 DEF ReadNothing
    <2>2. call'.result = "eof" /\ call'.pc = "idle"
      BY <1>1, <2>1 DEF Returned, CallType
    <2>3. Remaining' = 0
      BY <1>1, <2>1 DEF ReaderInv, Driven, Remaining
    <2>. QED BY <2>1, <2>2, <2>3 DEF Idle
  <1>9. ASSUME NEW n \in 1..StreamLen, ReadBytes(n)
        PROVE  Good
    <2> DEFINE c == [call EXCEPT !.total = call.total + n, !.pc = "check"]
    <2>1. c.op = call.op /\ c.pc = "check" /\ c.result = "none"
      BY <1>1 DEF CallType
    <2>2. /\ call' = IF call.op = "fill" THEN Returned(c, "complete") ELSE c
          /\ buf' = Absorb(buf, n, inner)
      BY <1>9 DEF ReadBytes
    <2>3. Returned(c, "complete").pc = "idle" /\ Returned(c, "complete").result = "complete"
      BY <1>1 DEF Returned, CallType
    <2> HIDE DEF c
    <2>4. n \in Nat /\ n > 0
      BY SourceAssumption
    <2>5. buf'.len = buf.len + n /\ buf'.pos = buf.pos
      BY <1>1, <1>9, <2>2, <2>4, ReadFits, AbsorbWellFormed
    <2>. QED BY <1>1, <2>1, <2>2, <2>3, <2>4, <2>5 DEF Idle
  <1>. QED BY <1>2, <1>3, <1>4, <1>5, <1>6, <1>7, <1>8, <1>9 DEF FillStep

(* A task that comes back short got nothing from its last read. *)
LEMMA ReceivedAnswer ==
  ASSUME ReaderInv, task.pc # "idle", task.result = "none",
         NEW bytes \in Seq(Nat), Len(bytes) <= Wanted
  PROVE  LET t == Received(bytes)
         IN  /\ t.op = task.op
             /\ t.pc # "filling"
             /\ t.pc # "idle" => t.result = "none"
             /\ (\/ t.op = "read" /\ t.result = "ok" /\ t.want > 0 /\ t.got = <<>>
                 \/ t.op = "read_exact" /\ t.result = "eof")
                => Len(bytes) = 0 /\ Wanted > 0
  <1> DEFINE u == [task EXCEPT !.got = task.got \o bytes, !.pc = "loop"]
             r == Received(bytes)
  <1>1. task \in TaskType /\ task.got \in Seq(Nat) /\ task.want \in Nat /\ Len(task.got) <= task.want
    BY ReaderFacts DEF TaskType, ReaderInv
  <1>2. /\ task.got \o bytes \in Seq(Nat) /\ Len(task.got \o bytes) = Len(task.got) + Len(bytes)
        /\ Len(bytes) \in Nat /\ Len(task.got) \in Nat
    BY <1>1
  <1>3. /\ u \in TaskType /\ u.pc = "loop" /\ u.got = task.got \o bytes /\ u.op = task.op
        /\ u.want = task.want /\ u.result = "none"
    BY <1>1, <1>2 DEF TaskType
  <1>4. r = CASE u.op # "read_exact" \/ Len(u.got) = u.want -> Ended(u, "ok")
              [] u.op = "read_exact" /\ Len(u.got) # u.want /\ bytes = <<>> -> Ended(u, "eof")
              [] OTHER -> u
    BY DEF Received
  <1> HIDE DEF u, r
  <1>5. /\ Ended(u, "ok").pc = "idle" /\ Ended(u, "ok").got = u.got /\ Ended(u, "ok").op = u.op
        /\ Ended(u, "ok").want = u.want /\ Ended(u, "ok").result = "ok"
    BY <1>3, EndedFields
  <1>6. /\ Ended(u, "eof").pc = "idle" /\ Ended(u, "eof").got = u.got /\ Ended(u, "eof").op = u.op
        /\ Ended(u, "eof").want = u.want /\ Ended(u, "eof").result = "eof"
    BY <1>3, EndedFields
  <1>7. r.op = task.op /\ r.pc # "filling" /\ (r.pc # "idle" => r.result = "none")
    BY <1>3, <1>4, <1>5, <1>6
  <1>8. ASSUME r.op = "read", r.result = "ok", r.want > 0, r.got = <<>>
        PROVE  Len(bytes) = 0 /\ Wanted > 0
    <2>1. r.got = u.got /\ r.want = u.want
      BY <1>3, <1>4, <1>5, <1>6
    <2>2. Len(task.got \o bytes) = 0 /\ task.want > 0
      BY <1>3, <1>8, <2>1
    <2>. QED BY <1>1, <1>2, <2>2 DEF Wanted
  <1>9. ASSUME r.op = "read_exact", r.result = "eof"
        PROVE  Len(bytes) = 0 /\ Wanted > 0
    <2>1. bytes = <<>> /\ Len(u.got) # u.want
      BY <1>3, <1>4, <1>5, <1>6, <1>9
    <2>. QED BY <1>1, <1>2, <1>3, <2>1 DEF Wanted
  <1>. QED BY <1>7, <1>8, <1>9 DEF r

-----------------------------------------------------------------------------
(* What the answers of the calls and of the tasks say, together. *)
Verdicts == Waiting /\ EofMeansEndOfStream /\ FillToEndFills /\ ShortReadIsEnd

LEMMA ReadDirectVerdict ==
  ASSUME ReaderInv, Verdicts, NEW n \in 0..StreamLen, ReadDirect(n)
  PROVE  Verdicts'
  <1>1. /\ task.pc = "loop" /\ n \in Nat /\ inner \in Nat /\ Remaining \in Nat /\ call = NoCall
        /\ task \in TaskType /\ Len(task.got) <= task.want /\ task.result = "none"
        /\ task.op \in Reads
    BY SourceAssumption, ReaderFacts DEF ReadDirect, Bypasses, ReaderInv, Verdicts, Waiting
  <1>2. Wanted \in Nat
    BY <1>1 DEF Wanted, TaskType
  <1>3. /\ n <= Remaining /\ n <= Wanted /\ buf' = Clear(buf) /\ inner' = inner + n
        /\ task' = Received(Run(inner, n)) /\ call' = call /\ (n = 0 => Remaining = 0)
    BY <1>1, <1>2 DEF ReadDirect, Smaller
  <1>4. Run(inner, n) \in Seq(Nat) /\ Len(Run(inner, n)) = n
    BY <1>1, <1>3, RunBytes
  <1>5. /\ task'.op = task.op /\ task'.pc # "filling"
        /\ (task'.pc # "idle" => task'.result = "none")
        /\ (\/ task'.op = "read" /\ task'.result = "ok" /\ task'.want > 0 /\ task'.got = <<>>
            \/ task'.op = "read_exact" /\ task'.result = "eof")
           => n = 0
    BY <1>1, <1>3, <1>4, ReceivedAnswer
  <1>6. n = 0 => Remaining' = 0 /\ Behind' = 0
    <2>1. Clear(buf).len = 0 /\ Clear(buf).pos = 0
      BY ReaderFacts DEF Clear, WellFormed, BufferType
    <2>. QED BY <1>1, <1>3, <2>1 DEF Remaining, Behind
  <1>7. call'.pc = "idle" /\ call'.result = "none"
    BY <1>1, <1>3, NoCallFields
  <1>8. ShortReadIsEnd'
    BY <1>5, <1>6 DEF ShortReadIsEnd
  <1>9. Waiting'
    BY <1>1, <1>5, <1>7 DEF Waiting, Idle
  <1>. QED BY <1>7, <1>8, <1>9 DEF Verdicts, EofMeansEndOfStream, FillToEndFills

LEMMA CopyOutVerdict ==
  ASSUME ReaderInv, Verdicts, CopyOut
  PROVE  Verdicts'
  <1> DEFINE n == IF task.op = "fill_buf" THEN 0 ELSE Smaller(Wanted, buf.len - buf.pos)
             bytes == SubSeq(Unconsumed(buf), 1, n)
  <1>1. /\ task.pc # "idle" /\ task \in TaskType /\ Len(task.got) <= task.want
        /\ task.result = "none" /\ WellFormed(buf)
        /\ buf.len \in Nat /\ buf.pos \in Nat /\ buf.pos <= buf.len
    BY ReaderFacts DEF CopyOut, ReaderInv, Verdicts, Waiting
  <1>2. Wanted \in Nat
    BY <1>1 DEF Wanted, TaskType
  <1>3. /\ buf' = Consume(buf, n) /\ task' = Received(bytes) /\ call' = NoCall /\ inner' = inner
    BY DEF CopyOut
  <1>4. /\ n \in Nat /\ n <= Wanted /\ n <= buf.len - buf.pos
        /\ n = 0 /\ task.op # "fill_buf" /\ Wanted > 0 => buf.pos = buf.len
    BY <1>1, <1>2 DEF Smaller
  <1> HIDE DEF n
  <1>5. bytes \in Seq(Nat) /\ Len(bytes) = n
    BY <1>4, HeldBytes
  <1> HIDE DEF bytes
  <1>6. /\ task'.op = task.op /\ task'.pc # "filling" /\ (task'.pc # "idle" => task'.result = "none")
        /\ (\/ task'.op = "read" /\ task'.result = "ok" /\ task'.want > 0 /\ task'.got = <<>>
            \/ task'.op = "read_exact" /\ task'.result = "eof")
           => n = 0 /\ Wanted > 0
    BY <1>1, <1>3, <1>4, <1>5, ReceivedAnswer
  <1>7. buf.pos = buf.len => Remaining = 0
    <2>1. task.pc = "loop" => buf.pos < buf.len
      BY <1>1 DEF CopyOut, Exhausted
    <2>2. task.pc = "filling" /\ call.result = "complete" => buf.pos < buf.len
      BY <1>1 DEF Verdicts, Waiting
    <2>3. call.result = "eof" => Remaining = 0
      BY DEF Verdicts, EofMeansEndOfStream
    <2>. QED BY <1>1, <2>1, <2>2, <2>3 DEF CopyOut
  <1>8. Remaining' = Remaining
    BY <1>3 DEF Remaining
  <1>9. n = 0 /\ buf.pos = buf.len => Behind' = 0
    <2>1. buf.pos + n <= USIZE_MAX
      BY <1>4, HeldFits
    <2>2. /\ WellFormed(Consume(buf, n)) /\ Consume(buf, n).len = buf.len
          /\ buf.pos <= Consume(buf, n).pos
      BY <1>1, <1>4, <2>1, ConsumeWellFormed
    <2>3. Consume(buf, n).pos \in Nat /\ Consume(buf, n).pos <= buf.len
      BY <2>2, Fields
    <2>. QED BY <1>1, <1>3, <2>2, <2>3 DEF Behind
  <1>10. call'.pc = "idle" /\ call'.result = "none"
    BY <1>3, NoCallFields
  <1>11. task'.op \in {"read", "read_exact"} => task.op # "fill_buf"
    BY <1>6
  <1>12. ShortReadIsEnd'
    BY <1>4, <1>6, <1>7, <1>8, <1>9, <1>11 DEF ShortReadIsEnd
  <1>13. Waiting'
    <2>1. task.op \in Reads
      BY <1>1 DEF Verdicts, Waiting
    <2>. QED BY <1>6, <1>10, <2>1 DEF Waiting, Idle
  <1>. QED BY <1>10, <1>12, <1>13 DEF Verdicts, EofMeansEndOfStream, FillToEndFills

LEMMA WorkVerdict ==
  ASSUME ReaderInv, Verdicts, Work
  PROVE  Verdicts'
  <1>1. CASE FillStep /\ UNCHANGED <<maxCapacity, task>>
    <2>1. /\ ~Idle /\ call'.op = call.op /\ task' = task /\ maxCapacity' = maxCapacity
          /\ task \in TaskType
      BY <1>1, ReaderFacts, FillStepCall
    <2>2. task.pc # "loop" /\ (task.pc = "filling" => call.op = "fill")
      BY <2>1, NoCallFields DEF ReaderInv, Idle
    <2>3. EofMeansEndOfStream' /\ FillToEndFills'
      BY <1>1, <2>1, FillStepOutcome DEF EofMeansEndOfStream, FillToEndFills
    <2>4. Waiting'
      <3>1. task.pc = "filling" => /\ buf'.pos = 0
                                   /\ ~Idle' => buf'.len = 0
                                   /\ call'.result = "complete" => buf'.len > 0
        BY <1>1, <2>1, <2>2, FillStepOutcome DEF Verdicts, Waiting
      <3>2. /\ task.pc # "idle" => task.result = "none" /\ task.op \in Reads
            /\ task.pc = "idle" => task.op = "other"
        BY <2>1 DEF Verdicts, Waiting, Idle
      <3>. QED BY <2>1, <3>1, <3>2 DEF Waiting
    <2>5. ShortReadIsEnd'
      <3>1. task.result = "none" \/ task.op = "other"
        BY <2>1, <2>2 DEF Verdicts, Waiting
      <3>. QED BY <2>1, <3>1 DEF ShortReadIsEnd
    <2>. QED BY <2>3, <2>4, <2>5 DEF Verdicts
  <1>2. ASSUME NEW interrupted \in BOOLEAN, ReadDirectFailed(interrupted)
        PROVE  Verdicts'
    <2>1. /\ task.pc = "loop" /\ call = NoCall /\ task \in TaskType /\ task.result = "none"
          /\ task.op \in Reads /\ call' = call /\ task' \in {task, Ended(task, "error")}
      BY <1>2, ReaderFacts DEF ReadDirectFailed, Bypasses, ReaderInv, Verdicts, Waiting
    <2>2. task'.pc # "filling" /\ task'.result \in {"none", "error"}
          /\ (task'.pc # "idle" => task'.result = "none") /\ task'.op = task.op
      <3>1. Ended(task, "error").pc = "idle" /\ Ended(task, "error").op = task.op /\ Ended(task, "error").result = "error"
        BY <2>1, EndedFields
      <3>. QED BY <2>1, <3>1
    <2>3. call'.pc = "idle" /\ call'.result = "none"
      BY <2>1, NoCallFields
    <2>4. ShortReadIsEnd' /\ Waiting'
      BY <2>1, <2>2, <2>3 DEF ShortReadIsEnd, Waiting, Idle
    <2>. QED BY <2>3, <2>4 DEF Verdicts, EofMeansEndOfStream, FillToEndFills
  <1>3. CASE Refill
    <2> DEFINE c == Called(Clear(buf), "fill", 0, NoLimit)
    <2>1. /\ buf' = Clear(buf) /\ call' = c /\ task' = [task EXCEPT !.pc = "filling"]
          /\ task.pc = "loop" /\ task \in TaskType /\ task.result = "none" /\ task.op \in Reads
      BY <1>3, ReaderFacts DEF Refill, Verdicts, Waiting
    <2>2. c.result = "none" /\ c.pc = "check"
      BY DEF Called
    <2> HIDE DEF c
    <2>3. task'.pc = "filling" /\ task'.result = "none" /\ task'.op = task.op
      BY <2>1 DEF TaskType
    <2>4. buf'.pos = 0 /\ buf'.len = 0
      BY <2>1, ReaderFacts DEF Clear, WellFormed, BufferType
    <2>5. ShortReadIsEnd' /\ Waiting'
      BY <2>1, <2>2, <2>3, <2>4 DEF ShortReadIsEnd, Waiting
    <2>. QED BY <2>1, <2>2, <2>5 DEF Verdicts, EofMeansEndOfStream, FillToEndFills
  <1>4. CASE RefillFailed
    <2>1. /\ buf' = buf /\ inner' = inner /\ call' = call /\ maxCapacity' = maxCapacity
          /\ task' = Ended(task, "error") /\ task \in TaskType /\ call.result # "none"
      BY <1>4, ReaderFacts DEF RefillFailed, fillVars
    <2>2. task'.pc = "idle" /\ task'.result = "error" /\ Idle
      BY <2>1, EndedFields DEF ReaderInv, Driven
    <2>3. ShortReadIsEnd' /\ Waiting'
      BY <2>1, <2>2 DEF ShortReadIsEnd, Waiting, Idle
    <2>4. EofMeansEndOfStream' /\ FillToEndFills'
      BY <2>1 DEF Verdicts, EofMeansEndOfStream, FillToEndFills, Remaining
    <2>. QED BY <2>3, <2>4 DEF Verdicts
  <1>. QED BY <1>1, <1>2, <1>3, <1>4, ReadDirectVerdict, CopyOutVerdict DEF Work

LEMMA NextVerdict ==
  ASSUME ReaderInv, Verdicts, [Next]_vars
  PROVE  Verdicts'
  <1>1. CASE Manage \/ StartReading \/ ReadAll \/ SeekCall
    <2>1. /\ call' = NoCall /\ task'.pc \in {"idle", "loop"}
          /\ task'.pc = "loop" => task'.result = "none" /\ task'.op \in Reads
          /\ task'.op = "read" => task'.result = "none"
          /\ task'.op = "read_exact" => task'.result \in {"none", "ok"}
      BY <1>1, QuickStep
    <2>2. call'.pc = "idle" /\ call'.result = "none"
      BY <2>1, NoCallFields
    <2>3. ShortReadIsEnd' /\ Waiting'
      BY <2>1, <2>2 DEF ShortReadIsEnd, Waiting, Idle
    <2>. QED BY <2>2, <2>3 DEF Verdicts, EofMeansEndOfStream, FillToEndFills
  <1>2. CASE FillCall
    <2>1. /\ task'.pc = "idle" /\ task'.op = "other"
          /\ call'.result = "complete" => call'.op = "fill_exact"
          /\ call'.result = "eof" => call'.op = "fill_exact" /\ Remaining' = 0
          /\ call'.result # "capped"
      BY <1>2, FillCallStep
    <2>2. ShortReadIsEnd' /\ Waiting'
      BY <2>1 DEF ShortReadIsEnd, Waiting
    <2>3. EofMeansEndOfStream' /\ FillToEndFills'
      BY <2>1 DEF EofMeansEndOfStream, FillToEndFills
    <2>. QED BY <2>2, <2>3 DEF Verdicts
  <1>3. CASE UNCHANGED vars
    BY <1>3 DEF vars, Verdicts, Waiting, EofMeansEndOfStream, FillToEndFills, ShortReadIsEnd,
       Remaining, Behind, Idle
  <1>. QED BY <1>1, <1>2, <1>3, WorkVerdict DEF Next

(* Before the first call there is no answer. *)
LEMMA FreshVerdict ==
  ASSUME call = NoCall, task.pc = "idle", task.op = "other"
  PROVE  Verdicts
  <1>1. call.pc = "idle" /\ call.result = "none"
    BY NoCallFields
  <1>. QED BY <1>1 DEF Verdicts, Waiting, EofMeansEndOfStream, FillToEndFills, ShortReadIsEnd, Idle

LEMMA VerdictsHold == Spec => []Verdicts
  <1>1. Init => Verdicts
    BY InitHolds, FreshVerdict DEF Init, Quiet
  <1>. QED BY <1>1, NextVerdict, ReaderInvHolds, PTL DEF Spec

(***************************************************************************)
(* A read through the standard traits never changes the capacity, whether  *)
(* it is done at once or in steps between which the source answers.        *)
(***************************************************************************)
THEOREM ReadsKeepCapacityHolds == Spec => ReadsKeepCapacity
  <1>1. ReaderInv /\ Verdicts /\ [Next]_vars => [task'.op \in Reads => buf'.cap = buf.cap]_vars
    <2> SUFFICES ASSUME ReaderInv, Verdicts, Next, task'.op \in Reads
                 PROVE  buf'.cap = buf.cap
      OBVIOUS
    <2>1. CASE Manage \/ StartReading \/ ReadAll \/ SeekCall
      BY <2>1, CallsKeepCapacity
    <2>2. CASE FillCall
      <3>1. task'.op = "other"
        BY <2>2, FillCallStep
      <3>. QED BY <3>1 DEF Reads
    <2>3. CASE Work
      <3>1. task.pc # "idle"
        <4>1. CASE FillStep /\ UNCHANGED task
          <5>1. ~Idle /\ Waiting
            BY <4>1, FillStepCall DEF ReaderInv, Verdicts
          <5>. QED BY <4>1, <5>1 DEF Waiting, Reads
        <4>2. CASE ~(FillStep /\ UNCHANGED task)
          BY <2>3, <4>2 DEF Work, ReadDirect, ReadDirectFailed, Bypasses, Refill, RefillFailed, CopyOut
        <4>. QED BY <4>1, <4>2
      <3>. QED BY <2>3, <3>1, WorkKeepsCapacity
    <2>. QED BY <2>1, <2>2, <2>3 DEF Next
  <1>. QED BY <1>1, ReaderInvHolds, VerdictsHold, PTL DEF Spec, ReadsKeepCapacity

(***************************************************************************)
(* Eof from a fill of a reader means that the source has no more bytes.    *)
(* The limit of every such fill is a capacity that keeps out of the corner *)
(* where a slice without room answers Ok(0).                               *)
(***************************************************************************)
THEOREM EofMeansEndHolds == Spec => []EofMeansEndOfStream
  <1>1. Verdicts => EofMeansEndOfStream
    BY DEF Verdicts
  <1>. QED BY <1>1, VerdictsHold, PTL

(***************************************************************************)
(* fill_to_end leaves nothing behind but what max_capacity keeps out.      *)
(***************************************************************************)
THEOREM FillToEndHolds == Spec => []FillToEndFills
  <1>1. Verdicts => FillToEndFills
    BY DEF Verdicts
  <1>. QED BY <1>1, VerdictsHold, PTL

(***************************************************************************)
(* A read that comes back short has met the end of the source.             *)
(***************************************************************************)
THEOREM ShortReadHolds == Spec => []ShortReadIsEnd
  <1>1. Verdicts => ShortReadIsEnd
    BY DEF Verdicts
  <1>. QED BY <1>1, VerdictsHold, PTL

=============================================================================
