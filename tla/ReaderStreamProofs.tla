------------------------- MODULE ReaderStreamProofs -------------------------
(***************************************************************************)
(* Theorems about what the Reader serves: the bytes that it retains, what  *)
(* its reads give the client and where its seeks arrive, for every source, *)
(* setting and client.                                                     *)
(***************************************************************************)
EXTENDS ReaderProofs, SequenceTheorems

(***************************************************************************)
(* The retained bytes, without reference to which is next to which: each   *)
(* is a byte that the source has given, they are in order, whatever the    *)
(* source gave after one of them is retained or lost, and if nothing is    *)
(* lost they are the last bytes that it gave.                              *)
(***************************************************************************)
Given      == /\ \A i \in 1..buf.len : buf.vec[i] \in 1..inner
              /\ buf.len > 0 => inner <= StreamLen
Sorted     == \A i, j \in 1..buf.len : i < j => buf.vec[i] < buf.vec[j]
Covered    == \A i \in 1..buf.len : \A x \in buf.vec[i]..inner :
                x \in lost \/ \E j \in i..buf.len : buf.vec[j] = x
Contiguous == lost = {} => \A i \in 1..buf.len : buf.vec[i] = inner - buf.len + i

Retained == Given /\ Sorted /\ Covered /\ Contiguous

-----------------------------------------------------------------------------
(* What a step can do to the retained bytes.                               *)

(* b retains what the buffer retains but for its first k bytes, *)
Suffix(b, k) == /\ k \in Nat /\ b.len \in Nat /\ b.len = buf.len - k
                /\ \A i \in 1..b.len : b.vec[i] = buf.vec[k + i]

(* and these were consumed.                                                *)
Still(b) == \E k : Suffix(b, k) /\ b.pos \in Nat /\ b.pos = buf.pos - k

(* n bytes of the source are lost, or they are appended to the buffer. *)
Passed(n) == /\ n \in Nat /\ n <= Remaining
             /\ inner' = inner + n
             /\ lost' = lost \cup (inner + 1)..(inner + n)

Absorbed(n) == /\ n \in Nat /\ n <= Remaining
               /\ inner' = inner + n
               /\ lost' = lost
               /\ buf'.len = buf.len + n /\ buf'.pos = buf.pos
               /\ \A i \in 1..buf.len : buf'.vec[i] = buf.vec[i]
               /\ \A i \in 1..n : buf'.vec[buf.len + i] = inner + i

Emptied == buf'.len = 0 /\ lost \subseteq lost'
Kept    == (\E k : Suffix(buf', k)) /\ (\E n : Passed(n))
Grew    == \E n : Absorbed(n)

-----------------------------------------------------------------------------
(* Each of the three keeps the retained bytes as they have to be.          *)
LEMMA EmptiedRetained == ASSUME Emptied PROVE Retained'
  <1>1. 1..0 = {} /\ buf'.len = 0
    BY DEF Emptied
  <1>. QED BY <1>1 DEF Retained, Given, Sorted, Covered, Contiguous

LEMMA KeptRetained ==
  ASSUME ReaderInv, Retained, Kept
  PROVE  Retained'
  <1>1. /\ inner \in Nat /\ buf.len \in Nat /\ Remaining \in Nat /\ StreamLen \in Nat
    BY ReaderFacts, SourceAssumption
  <1>2. PICK k : Suffix(buf', k)
    BY DEF Kept
  <1>3. PICK n : Passed(n)
    BY DEF Kept
  <1>4. /\ k \in Nat /\ buf'.len \in Nat /\ buf'.len = buf.len - k
        /\ \A i \in 1..buf'.len : buf'.vec[i] = buf.vec[k + i]
        /\ \A i \in 1..buf'.len : k + i \in 1..buf.len
    BY <1>1, <1>2 DEF Suffix
  <1>5. /\ n \in Nat /\ inner' = inner + n /\ lost' = lost \cup (inner + 1)..(inner + n)
        /\ n > 0 => inner + n <= StreamLen
    BY <1>1, <1>3, SourceFacts DEF Passed
  <1>6. /\ \A i \in 1..buf.len : buf.vec[i] \in 1..inner
        /\ buf.len > 0 => inner <= StreamLen
    BY DEF Retained, Given
  <1>7. Given'
    BY <1>1, <1>4, <1>5, <1>6 DEF Given
  <1>8. Sorted'
    <2> SUFFICES ASSUME NEW i \in 1..buf'.len, NEW j \in 1..buf'.len, i < j
                 PROVE  buf'.vec[i] < buf'.vec[j]
      BY DEF Sorted
    <2>1. k + i \in 1..buf.len /\ k + j \in 1..buf.len /\ k + i < k + j
      BY <1>4
    <2>2. buf.vec[k + i] < buf.vec[k + j]
      BY <2>1 DEF Retained, Sorted
    <2>. QED BY <1>4, <2>2
  <1>9. Covered'
    <2> SUFFICES ASSUME NEW i \in 1..buf'.len, NEW x \in buf'.vec[i]..inner',
                        x \notin lost'
                 PROVE  \E j \in i..buf'.len : buf'.vec[j] = x
      BY DEF Covered
    <2>1. k + i \in 1..buf.len /\ buf'.vec[i] = buf.vec[k + i] /\ buf.vec[k + i] \in Nat
      BY <1>1, <1>4, <1>6
    <2>2. x \in Int /\ x <= inner
      BY <1>1, <1>5, <2>1
    <2>3. x \in buf.vec[k + i]..inner /\ x \notin lost
      BY <1>1, <1>5, <2>1, <2>2
    <2>4. PICK h \in (k + i)..buf.len : buf.vec[h] = x
      BY <2>1, <2>3 DEF Retained, Covered
    <2>5. h - k \in i..buf'.len /\ h - k \in 1..buf'.len /\ k + (h - k) = h
      BY <1>1, <1>4
    <2>6. buf'.vec[h - k] = x
      BY <1>4, <2>4, <2>5
    <2>. QED BY <2>5, <2>6
  <1>10. Contiguous'
    <2> SUFFICES ASSUME lost' = {}, NEW i \in 1..buf'.len
                 PROVE  buf'.vec[i] = inner' - buf'.len + i
      BY DEF Contiguous
    <2>1. lost = {} /\ n = 0
      <3>1. n > 0 => inner + 1 \in (inner + 1)..(inner + n)
        BY <1>1, <1>5
      <3>. QED BY <1>5, <3>1
    <2>2. k + i \in 1..buf.len /\ buf'.vec[i] = buf.vec[k + i]
      BY <1>4
    <2>3. buf.vec[k + i] = inner - buf.len + (k + i)
      BY <2>1, <2>2 DEF Retained, Contiguous
    <2>. QED BY <1>1, <1>4, <1>5, <2>1, <2>2, <2>3
  <1>. QED BY <1>7, <1>8, <1>9, <1>10 DEF Retained

LEMMA GrewRetained ==
  ASSUME ReaderInv, Retained, Grew
  PROVE  Retained'
  <1>1. /\ inner \in Nat /\ buf.len \in Nat /\ Remaining \in Nat /\ StreamLen \in Nat
    BY ReaderFacts, SourceAssumption
  <1>2. PICK n : Absorbed(n)
    BY DEF Grew
  <1>3. /\ n \in Nat /\ inner' = inner + n /\ lost' = lost /\ buf'.len = buf.len + n
        /\ n > 0 => inner + n <= StreamLen
    BY <1>1, <1>2, SourceFacts DEF Absorbed
  <1>4. /\ \A i \in 1..buf.len : buf.vec[i] \in 1..inner
        /\ buf.len > 0 => inner <= StreamLen
    BY DEF Retained, Given
  <1>5. \A i \in 1..buf.len : buf'.vec[i] = buf.vec[i]
    BY <1>2 DEF Absorbed
  <1>6. ASSUME NEW i \in 1..buf'.len, i > buf.len
        PROVE  buf'.vec[i] = inner + (i - buf.len) /\ i - buf.len \in 1..n
    <2>1. i - buf.len \in 1..n /\ buf.len + (i - buf.len) = i
      BY <1>1, <1>3, <1>6
    <2>2. buf'.vec[buf.len + (i - buf.len)] = inner + (i - buf.len)
      BY <1>2, <2>1 DEF Absorbed
    <2>. QED BY <2>1, <2>2
  <1>7. \A i \in 1..buf'.len : i <= buf.len => i \in 1..buf.len
    BY <1>1, <1>3
  <1>8. Given'
    <2>1. \A i \in 1..buf'.len : buf'.vec[i] \in 1..inner'
      BY <1>1, <1>3, <1>4, <1>5, <1>6, <1>7
    <2>2. buf'.len > 0 => inner' <= StreamLen
      BY <1>1, <1>3, <1>4
    <2>. QED BY <2>1, <2>2 DEF Given
  <1>9. Sorted'
    <2> SUFFICES ASSUME NEW i \in 1..buf'.len, NEW j \in 1..buf'.len, i < j
                 PROVE  buf'.vec[i] < buf'.vec[j]
      BY DEF Sorted
    <2>1. CASE j <= buf.len
      <3>1. i \in 1..buf.len /\ j \in 1..buf.len
        BY <1>1, <1>3, <2>1
      <3>2. buf.vec[i] < buf.vec[j]
        BY <3>1 DEF Retained, Sorted
      <3>. QED BY <1>5, <3>1, <3>2
    <2>2. CASE i <= buf.len /\ j > buf.len
      BY <1>1, <1>3, <1>4, <1>5, <1>6, <1>7, <2>2
    <2>3. CASE i > buf.len
      BY <1>1, <1>3, <1>6, <2>3
    <2>. QED BY <1>1, <1>3, <2>1, <2>2, <2>3
  <1>10. Covered'
    <2> SUFFICES ASSUME NEW i \in 1..buf'.len, NEW x \in buf'.vec[i]..inner', x \notin lost
                 PROVE  \E j \in i..buf'.len : buf'.vec[j] = x
      BY <1>3 DEF Covered
    <2>0. buf'.vec[i] \in Nat /\ x \in Nat /\ buf'.vec[i] <= x /\ x <= inner + n
      <3>1. buf'.vec[i] \in Nat
        BY <1>1, <1>4, <1>5, <1>6, <1>7
      <3>. QED BY <1>1, <1>3, <3>1
    <2>1. CASE x > inner
      <3>1. x - inner \in 1..n /\ buf.len + (x - inner) \in 1..buf'.len
        BY <1>1, <1>3, <2>0, <2>1
      <3>2. buf'.vec[buf.len + (x - inner)] = x
        <4>1. buf'.vec[buf.len + (x - inner)] = inner + (x - inner)
          BY <1>2, <3>1 DEF Absorbed
        <4>. QED BY <1>1, <2>0, <4>1
      <3>3. i <= buf.len + (x - inner)
        BY <1>1, <1>3, <1>6, <2>0, <2>1
      <3>. QED BY <1>1, <1>3, <3>1, <3>2, <3>3
    <2>2. CASE x <= inner
      <3>1. i \in 1..buf.len /\ buf'.vec[i] = buf.vec[i]
        BY <1>1, <1>3, <1>5, <1>6, <2>0, <2>2
      <3>2. x \in buf.vec[i]..inner
        BY <1>1, <2>0, <2>2, <3>1
      <3>3. PICK j \in i..buf.len : buf.vec[j] = x
        BY <3>1, <3>2 DEF Retained, Covered
      <3>4. j \in 1..buf.len /\ j \in i..buf'.len
        BY <1>1, <1>3, <3>1
      <3>. QED BY <1>5, <3>3, <3>4
    <2>. QED BY <1>1, <2>0, <2>1, <2>2
  <1>11. Contiguous'
    <2> SUFFICES ASSUME lost = {}, NEW i \in 1..buf'.len
                 PROVE  buf'.vec[i] = inner' - buf'.len + i
      BY <1>3 DEF Contiguous
    <2>1. CASE i <= buf.len
      <3>1. i \in 1..buf.len
        BY <1>7, <2>1
      <3>2. buf.vec[i] = inner - buf.len + i
        BY <3>1 DEF Retained, Contiguous
      <3>. QED BY <1>1, <1>3, <1>5, <3>1, <3>2
    <2>2. CASE i > buf.len
      BY <1>1, <1>3, <1>6, <2>2
    <2>. QED BY <1>1, <1>3, <2>1, <2>2
  <1>. QED BY <1>8, <1>9, <1>10, <1>11 DEF Retained
-----------------------------------------------------------------------------
(* What the operations of the buffer retain.                               *)
LEMMA SameSuffix ==
  ASSUME ReaderInv, NEW b, b.len = buf.len, \A i \in 1..buf.len : b.vec[i] = buf.vec[i]
  PROVE  /\ Suffix(b, 0)
         /\ b.pos = buf.pos => Still(b)
  <1>1. buf.len \in Nat /\ buf.pos \in Nat
    BY ReaderFacts
  <1>2. b.len = buf.len - 0 /\ \A i \in 1..b.len : b.vec[i] = buf.vec[0 + i]
    BY <1>1
  <1>3. Suffix(b, 0)
    BY <1>1, <1>2 DEF Suffix
  <1>4. b.pos = buf.pos => b.pos = buf.pos - 0
    BY <1>1
  <1>. QED BY <1>1, <1>3, <1>4 DEF Still

(* What a split leaves to the reader begins with the unconsumed bytes. *)
LEMMA KeptFront ==
  ASSUME ReaderInv
  PROVE  KeptPart(buf).pos = 0
  <1>1. CASE buf.pos = 0
    BY <1>1 DEF KeptPart
  <1>2. CASE buf.pos # 0
    <2> DEFINE n == buf.len - buf.pos
               fresh == WithCapacity(n)
               v == [i \in 1..Len(fresh.vec) |-> IF i <= n THEN buf.vec[buf.pos + i] ELSE fresh.vec[i]]
    <2>1. fresh = [vec |-> Resize(<<>>, CapUpLinear(n)), cap |-> CapUpLinear(n), len |-> 0, pos |-> 0]
      BY DEF WithCapacity
    <2>2. KeptPart(buf) = [fresh EXCEPT !.vec = v, !.len = n]
      BY <1>2 DEF KeptPart
    <2> HIDE DEF v
    <2>. QED BY <2>1, <2>2
  <1>. QED BY <1>1, <1>2

LEMMA PartsStill ==
  ASSUME ReaderInv
  PROVE  Still(buf) /\ Still(Shrink(buf)) /\ Still(Compact(buf)) /\ Still(KeptPart(buf))
  <1>1. /\ WellFormed(buf) /\ buf.len \in Nat /\ buf.pos \in Nat /\ buf.pos <= buf.len
        /\ buf \in BufferType
    BY ReaderFacts DEF WellFormed
  <1>2. Still(buf)
    BY SameSuffix
  <1>3. Still(Shrink(buf))
    <2>1. CHUNK_SIZE \in Nat /\ CapUpLinear(CHUNK_SIZE) <= buf.cap
      BY <1>1, OneChunk
    <2>2. /\ Shrink(buf).len = buf.len /\ Shrink(buf).pos = buf.pos
          /\ \A i \in 1..buf.len : Shrink(buf).vec[i] = buf.vec[i]
      BY <1>1, <2>1, ShrinkWellFormed DEF Shrink
    <2>. QED BY <2>2, SameSuffix
  <1>4. ASSUME NEW b, b.len = buf.len - buf.pos, b.pos = 0,
               \A i \in 1..(buf.len - buf.pos) : b.vec[i] = buf.vec[buf.pos + i]
        PROVE  Still(b)
    <2>1. Suffix(b, buf.pos)
      BY <1>1, <1>4 DEF Suffix
    <2>2. b.pos \in Nat /\ b.pos = buf.pos - buf.pos
      BY <1>1, <1>4
    <2>. QED BY <2>1, <2>2 DEF Still
  <1>5. Compact(buf).pos = 0
    BY <1>1 DEF Compact, BufferType
  <1>6. Still(Compact(buf))
    BY <1>1, <1>4, <1>5, CompactWellFormed
  <1>7. KeptPart(buf).pos = 0
    BY KeptFront
  <1>8. Still(KeptPart(buf))
    BY <1>1, <1>4, <1>7, KeptWellFormed
  <1>. QED BY <1>2, <1>3, <1>6, <1>8

(* The client moves within what is retained. *)
LEMMA ConsumeSuffix ==
  ASSUME ReaderInv, NEW amt \in Nat, buf.pos + amt <= USIZE_MAX
  PROVE  LET b == Consume(buf, amt)
         IN  /\ Suffix(b, 0) /\ b.vec = buf.vec /\ b.len = buf.len
             /\ b.pos = Smaller(buf.pos + amt, buf.len)
  <1>1. WellFormed(buf) /\ buf.pos \in Nat /\ buf \in BufferType
    BY ReaderFacts DEF WellFormed
  <1>2. Consume(buf, amt).vec = buf.vec /\ Consume(buf, amt).len = buf.len
    BY <1>1, ConsumeWellFormed
  <1>3. Suffix(Consume(buf, amt), 0)
    BY <1>2, SameSuffix
  <1>4. Wrap(buf.pos + amt) = buf.pos + amt
    BY <1>1, CapacityAssumption DEF Wrap
  <1>5. Consume(buf, amt).pos = Smaller(buf.pos + amt, buf.len)
    BY <1>1, <1>4 DEF Consume, BufferType
  <1>. QED BY <1>2, <1>3, <1>5

LEMMA UnconsumeSuffix ==
  ASSUME ReaderInv, NEW amt \in Nat
  PROVE  LET b == Unconsume(buf, amt)
         IN  /\ Suffix(b, 0) /\ b.vec = buf.vec /\ b.len = buf.len
             /\ amt <= buf.pos => b.pos = buf.pos - amt
  <1>1. WellFormed(buf) /\ buf \in BufferType
    BY ReaderFacts DEF WellFormed
  <1>2. Unconsume(buf, amt).vec = buf.vec /\ Unconsume(buf, amt).len = buf.len
    BY <1>1, UnconsumeWellFormed
  <1>3. Suffix(Unconsume(buf, amt), 0)
    BY <1>2, SameSuffix
  <1>4. amt <= buf.pos => Unconsume(buf, amt).pos = buf.pos - amt
    BY <1>1 DEF Unconsume, BufferType
  <1>. QED BY <1>2, <1>3, <1>4

LEMMA EmptyParts ==
  ASSUME ReaderInv
  PROVE  /\ Clear(buf).len = 0 /\ Clear(buf).pos = 0
         /\ Discard(buf).len = 0 /\ NewBuffer.len = 0
  <1>1. WellFormed(buf) /\ buf \in BufferType /\ CHUNK_SIZE \in Nat
    BY ReaderFacts, CapacityAssumption DEF WellFormed
  <1>2. Clear(buf).pos = 0
    BY <1>1 DEF Clear, BufferType
  <1>. QED BY <1>1, <1>2, ClearWellFormed, DiscardWellFormed, NewWellFormed DEF NewBuffer

(* The source stays where it is. *)
LEMMA NothingPassed ==
  ASSUME ReaderInv, inner' = inner, lost' = lost
  PROVE  Passed(0)
  <1>1. inner \in Nat /\ Remaining \in Nat
    BY ReaderFacts
  <1>2. (inner + 1)..(inner + 0) = {}
    BY <1>1
  <1>. QED BY <1>1, <1>2 DEF Passed

LEMMA StillKept ==
  ASSUME ReaderInv, Still(buf') \/ (\E k : Suffix(buf', k)), inner' = inner, lost' = lost
  PROVE  Kept
  <1>1. Passed(0)
    BY NothingPassed
  <1>. QED BY <1>1 DEF Still, Kept
-----------------------------------------------------------------------------
(***************************************************************************)
(* The kinds of steps.  Each says what the client sees of the step, and    *)
(* what becomes of the retained bytes.                                     *)
(***************************************************************************)

(* The client sees nothing at all. *)
Hides == /\ Doing' = Doing /\ task'.got = task.got /\ lost' = lost
         /\ \/ Still(buf') /\ inner' = inner
            \/ Grew
            \/ Exhausted /\ Emptied /\ inner' = inner

(* A fill that the client starts, or a change of storage. *)
Fetches == (Still(buf') /\ \E n : Passed(n)) \/ Grew

Holds == Doing' = "holding" /\ task'.got = <<>> /\ Fetches

Skips == /\ Doing' = "skipping" /\ task'.got = <<>>
         /\ inner' = inner /\ lost' = lost
         /\ Emptied \/ (buf'.vec = buf.vec /\ buf'.len = buf.len /\ buf.pos <= buf'.pos)

Jumps == /\ Doing' = "moving" /\ task'.got = <<>>
         /\ Emptied \/ ((\E k : Suffix(buf', k)) /\ inner' = inner)
         /\ lost' = lost

(* The bytes are the first unconsumed ones, which are consumed; or all of  *)
(* them and the next n of the source, and the buffer is empty then.        *)
Copied(bytes) == /\ Len(bytes) <= buf.len - buf.pos
                 /\ \A i \in 1..Len(bytes) : bytes[i] = buf.vec[buf.pos + i]
                 /\ buf'.vec = buf.vec /\ buf'.len = buf.len
                 /\ buf'.pos = buf.pos + Len(bytes)
                 /\ inner' = inner /\ lost' = lost

Drained(bytes, n) == /\ n \in Nat /\ n <= Remaining
                     /\ Len(bytes) = buf.len - buf.pos + n
                     /\ \A i \in 1..(buf.len - buf.pos) : bytes[i] = buf.vec[buf.pos + i]
                     /\ \A i \in 1..n : bytes[buf.len - buf.pos + i] = inner + i
                     /\ buf'.len = 0 /\ inner' = inner + n

Serves(before) ==
  /\ Doing' = "reading"
  /\ \E bytes \in Seq(Nat) :
       /\ task'.got = before \o bytes
       /\ Copied(bytes) \/ ((\E n : Drained(bytes, n)) /\ lost' = lost)

(* The bytes are neither in the buffer nor with the client.                *)
Drops == /\ Doing' = "reading" /\ task'.got = <<>>
         /\ \E bytes \in Seq(Nat) : /\ \E n : Drained(bytes, n)
                                   /\ lost' = lost \cup {bytes[i] : i \in 1..Len(bytes)}

Reading == Serves(<<>>) \/ Serves(task.got) \/ Drops

(* What the client is told of a method that runs at once. *)
LEMMA Told ==
  ASSUME NEW op \in Reads \cup Moves \cup {"other"}, NEW want \in Nat,
         NEW result \in {"none", "ok", "eof", "invalid", "error"},
         task' = Ended(Task(op, want), result) \/ task' = Task(op, want)
  PROVE  /\ task'.got = <<>>
         /\ op \in Reads => Doing' = "reading"
         /\ op \in {"consume", "clear", "discard", "take_buffer"} => Doing' = "skipping"
         /\ op \in {"seek", "seek_relative"} => Doing' = "moving"
         /\ op = "other" => Doing' = "holding"
  <1>1. Task(op, want) \in TaskType /\ Task(op, want).op = op /\ Task(op, want).got = <<>>
    BY TaskFields
  <1>2. task'.op = op /\ task'.got = <<>>
    BY <1>1, EndedFields
  <1>. QED BY <1>2 DEF Doing, Reads

LEMMA ManageKind ==
  ASSUME ReaderInv, Manage
  PROVE  Holds \/ Skips
  <1>1. /\ {"other", "clear", "discard", "take_buffer", "consume"} \subseteq Reads \cup Moves \cup {"other"}
        /\ Requests \subseteq Nat /\ inner \in Nat /\ Remaining \in Nat
    BY ReaderAssumption, ReaderFacts DEF Moves
  <1>2. ASSUME NEW b, Still(b), Manages("other", b)
        PROVE  Holds
    <2>1. Doing' = "holding" /\ task'.got = <<>>
      BY <1>1, <1>2, Told DEF Manages, Does
    <2>2. Passed(0) /\ Still(buf')
      BY <1>2, NothingPassed DEF Manages, Does
    <2>. QED BY <2>1, <2>2 DEF Holds, Fetches
  <1>3. ASSUME NEW op \in {"clear", "discard", "take_buffer"}, NEW b, b.len = 0, Manages(op, b)
        PROVE  Skips
    <2>1. Doing' = "skipping" /\ task'.got = <<>>
      BY <1>1, <1>3, Told DEF Manages, Does
    <2>2. inner' = inner /\ lost' = lost /\ Emptied
      BY <1>3 DEF Manages, Does, Emptied
    <2>. QED BY <2>1, <2>2 DEF Skips
  <1>4. CASE ShrinkCall \/ CompactCall \/ TakeConsumedCall
    BY <1>2, <1>4, PartsStill DEF ShrinkCall, CompactCall, TakeConsumedCall
  <1>5. CASE ClearCall \/ DiscardCall \/ TakeBufferCall
    BY <1>3, <1>5, EmptyParts DEF ClearCall, DiscardCall, TakeBufferCall
  <1>6. ASSUME NEW amt \in Requests, ConsumeCall(amt) PROVE Skips
    <2>1. Doing' = "skipping" /\ task'.got = <<>>
      BY <1>1, <1>6, Told DEF ConsumeCall, Manages, Does
    <2>2. amt \in Nat /\ buf.pos + amt <= USIZE_MAX /\ buf' = Consume(buf, amt)
          /\ inner' = inner /\ lost' = lost
      BY <1>1, <1>6 DEF ConsumeCall, Manages, Does
    <2>3. buf'.vec = buf.vec /\ buf'.len = buf.len /\ buf'.pos = Smaller(buf.pos + amt, buf.len)
      BY <2>2, ConsumeSuffix
    <2>4. buf.pos <= buf'.pos
      BY <2>2, <2>3, ReaderFacts DEF Smaller
    <2>. QED BY <2>1, <2>2, <2>3, <2>4 DEF Skips
  <1>7. ASSUME NEW n \in Requests, GetMutCall(n) PROVE Holds
    <2>1. Doing' = "holding" /\ task'.got = <<>>
      BY <1>1, <1>7, Told DEF GetMutCall, Does
    <2>2. buf' = buf /\ Passed(n)
      BY <1>1, <1>7 DEF GetMutCall, Does, Passed
    <2>. QED BY <2>1, <2>2, PartsStill DEF Holds, Fetches
  <1>8. ASSUME NEW initial \in Settings, NEW max \in Settings, IntoPartsCall(initial, max)
        PROVE  Skips
    <2>1. Doing' = "skipping" /\ task'.got = <<>>
      BY <1>1, <1>8, Told DEF IntoPartsCall
    <2>2. inner' = inner /\ lost' = lost /\ Emptied
      BY <1>8, Built, ReaderAssumption DEF IntoPartsCall, Emptied
    <2>. QED BY <2>1, <2>2 DEF Skips
  <1>. QED BY <1>4, <1>5, <1>6, <1>7, <1>8 DEF Manage

LEMMA SeekKind ==
  ASSUME ReaderInv, SeekCall
  PROVE  Jumps
  <1>1. {"seek", "seek_relative"} \subseteq Reads \cup Moves \cup {"other"}
    BY DEF Moves
  <1>2. ASSUME NEW op \in {"seek", "seek_relative"}, NEW b, NEW p, NEW result \in {"ok", "error"},
               Moved(op, b, p, result), b.len = 0 \/ ((\E k : Suffix(b, k)) /\ p = inner)
        PROVE  Jumps
    <2>1. buf' = b /\ inner' = p /\ lost' = lost /\ task' = Ended(Task(op, 0), result)
      BY <1>2 DEF Moved, Does
    <2>2. Doing' = "moving" /\ task'.got = <<>>
      BY <1>1, <2>1, Told
    <2>. QED BY <1>2, <2>1, <2>2 DEF Jumps, Emptied
  <1>3. Clear(buf).len = 0 /\ (\E k : Suffix(buf, k)) /\ Offsets \subseteq Int
    BY EmptyParts, PartsStill, ReaderAssumption DEF Still
  <1>4. CASE SeekFailed
    BY <1>2, <1>3, <1>4 DEF SeekFailed
  <1>5. ASSUME NEW p, SeekAbsolute(p) PROVE Jumps
    BY <1>2, <1>3, <1>5 DEF SeekAbsolute
  <1>6. ASSUME NEW op \in {"seek", "seek_relative"}, NEW offset, SeekCurrent(op, offset)
        PROVE  Jumps
    <2>1. CASE SeekOnce(op, offset)
      BY <1>2, <1>3, <2>1 DEF SeekOnce
    <2>2. CASE SeekTwice(op, offset)
      BY <1>2, <1>3, <2>2 DEF SeekTwice
    <2>3. CASE SeekHalfway(op, offset)
      BY <1>2, <1>3, <2>3 DEF SeekHalfway
    <2>. QED BY <1>6, <2>1, <2>2, <2>3 DEF SeekCurrent
  <1>7. ASSUME NEW offset \in Int, SeekRelative(offset) PROVE Jumps
    <2>1. CASE 0 <= offset /\ offset <= Behind
      <3>1. offset \in Nat /\ offset <= buf.len - buf.pos
        BY <1>7, <2>1 DEF Behind
      <3>2. buf.pos + offset <= USIZE_MAX
        BY <3>1, HeldFits
      <3>3. \E k : Suffix(Consume(buf, offset), k)
        BY <3>1, <3>2, ConsumeSuffix
      <3>4. Moved("seek_relative", Consume(buf, offset), inner, "ok")
        BY <1>7, <2>1 DEF SeekRelative
      <3>. QED BY <1>2, <3>3, <3>4
    <2>2. CASE ~(0 <= offset /\ offset <= Behind) /\ offset < 0 /\ -offset <= buf.pos
      <3>1. Moved("seek_relative", Unconsume(buf, -offset), inner, "ok") /\ -offset \in Nat
        BY <1>7, <2>2 DEF SeekRelative
      <3>2. \E k : Suffix(Unconsume(buf, -offset), k)
        BY <3>1, UnconsumeSuffix
      <3>. QED BY <1>2, <3>1, <3>2
    <2>3. CASE ~(0 <= offset /\ offset <= Behind) /\ ~(offset < 0 /\ -offset <= buf.pos)
      BY <1>6, <1>7, <2>3 DEF SeekRelative
    <2>. QED BY <2>1, <2>2, <2>3
  <1>. QED BY <1>3, <1>4, <1>5, <1>6, <1>7 DEF SeekCall

(* A fill that the client starts, and a step of one. *)
LEMMA FillCallKind ==
  ASSUME ReaderInv, FillCall
  PROVE  Holds
  <1>1. /\ WellFormed(buf) /\ inner \in Nat /\ Remaining \in Nat /\ buf.len \in Nat
        /\ Requests \subseteq Nat
    BY ReaderFacts, ReaderAssumption
  <1>2. ASSUME NEW start, Fills(start)
        PROVE  Doing' = "holding" /\ task'.got = <<>>
    BY <1>2, Told DEF Fills
  <1>3. ASSUME Still(buf'), inner' = inner, lost' = lost
        PROVE  Fetches
    BY <1>3, NothingPassed DEF Fetches
  <1>4. ASSUME NEW op, NEW limit, StartFill(op, limit) PROVE Fetches
    BY <1>3, <1>4, PartsStill DEF StartFill
  <1>5. ASSUME NEW amt, FillRefused(amt) PROVE Fetches
    BY <1>3, <1>5, PartsStill DEF FillRefused
  <1>6. ASSUME NEW amt \in Nat, ~ExceedsMax(amt)
        PROVE  LET g == GrowTargetedLinear(buf, buf.len + amt)
               IN  /\ WellFormed(g) /\ buf.len + amt <= g.cap /\ g.len = buf.len /\ g.pos = buf.pos
                   /\ \A i \in 1..buf.len : g.vec[i] = buf.vec[i]
                   /\ Still(g) /\ ~TooMuch(amt)
    BY <1>6, AmountSized, SameSuffix DEF Sized
  <1>7. ASSUME NEW amt \in Nat, ~ExceedsMax(amt), StartFillAmount(amt) PROVE Fetches
    BY <1>3, <1>6, <1>7 DEF StartFillAmount
  <1>8. ASSUME NEW amt \in Nat, ~ExceedsMax(amt), FillExactDone(amt) PROVE Fetches
    <2> DEFINE g == GrowTargetedLinear(buf, buf.len + amt)
    <2>1. /\ WellFormed(g) /\ g.len + amt <= g.cap /\ g.len = buf.len /\ g.pos = buf.pos
          /\ \A i \in 1..buf.len : g.vec[i] = buf.vec[i]
      BY <1>6, <1>8
    <2>2. /\ buf' = Absorb(g, amt, inner) /\ inner' = inner + amt /\ amt <= Remaining
          /\ lost' = lost
      BY <1>8 DEF FillExactDone, FillExactGrown
    <2> HIDE DEF g
    <2>3. /\ buf'.len = buf.len + amt /\ buf'.pos = buf.pos
          /\ \A i \in 1..buf.len : buf'.vec[i] = g.vec[i]
          /\ \A i \in (buf.len + 1)..(buf.len + amt) : buf'.vec[i] = inner + (i - buf.len)
      BY <1>1, <2>1, <2>2, AbsorbWellFormed
    <2>4. \A i \in 1..amt : buf'.vec[buf.len + i] = inner + i
      <3> TAKE i \in 1..amt
      <3>1. buf.len + i \in (buf.len + 1)..(buf.len + amt) /\ (buf.len + i) - buf.len = i
        BY <1>1
      <3>. QED BY <2>3, <3>1
    <2>5. Absorbed(amt)
      BY <2>1, <2>2, <2>3, <2>4 DEF Absorbed
    <2>. QED BY <2>5 DEF Fetches, Grew
  <1>9. ASSUME NEW amt \in Nat, ~ExceedsMax(amt), NEW n \in Nat, NEW result \in {"eof", "error"},
               FillExactFailed(amt, n, result)
        PROVE  Fetches
    <2> DEFINE g == GrowTargetedLinear(buf, buf.len + amt)
    <2>1. /\ WellFormed(g) /\ g.len = buf.len /\ g.pos = buf.pos
          /\ \A i \in 1..buf.len : g.vec[i] = buf.vec[i]
      BY <1>6, <1>9
    <2>2. /\ buf' = [g EXCEPT !.vec = WriteAt(g.vec, g.len, n, inner)]
          /\ Passed(n)
      BY <1>1, <1>9 DEF FillExactFailed, FillExactGrown, Passed
    <2> HIDE DEF g
    <2>3. /\ buf'.len = buf.len /\ buf'.pos = buf.pos
          /\ \A i \in 1..buf.len : buf'.vec[i] = buf.vec[i]
      BY <1>1, <2>1, <2>2, SpoiltWellFormed
    <2>4. Still(buf')
      BY <2>3, SameSuffix
    <2>. QED BY <2>2, <2>4 DEF Fetches
  <1>10. ASSUME NEW amt \in Nat, FillExact(amt) PROVE Fetches
    <2>1. \A n \in 0..amt : n \in Nat
      OBVIOUS
    <2>. QED BY <1>5, <1>8, <1>9, <1>10, <2>1 DEF FillExact
  <1>11. ASSUME NEW amt \in Nat, FillAmount(amt) PROVE Fetches
    BY <1>5, <1>7, <1>11 DEF FillAmount
  <1>12. Fetches
    BY <1>1, <1>4, <1>10, <1>11 DEF FillCall, Fills, FillOnce, FillWhile, FillToEnd, FillUntil,
       FillUntilStr
  <1>13. Doing' = "holding" /\ task'.got = <<>>
    BY <1>2 DEF FillCall
  <1>. QED BY <1>12, <1>13 DEF Holds

LEMMA FillStepKind ==
  ASSUME ReaderInv, FillStep, task' = task
  PROVE  Hides
  <1>1. /\ FillInvariant /\ WellFormed(buf) /\ inner \in Nat /\ buf.len \in Nat /\ buf.cap \in Nat
        /\ Remaining \in Nat
    BY ReaderFacts
  <1>2. ~Idle /\ lost' = lost
    BY <1>1, FillStepCall
  <1> DEFINE Unseen == (Still(buf') /\ inner' = inner) \/ Grew
  <1>3. ASSUME Still(buf'), inner' = inner
        PROVE  Unseen
    BY <1>3
  <1> HIDE DEF Unseen
  <1>4. ASSUME Finish \/ ReadNothing
        PROVE  Unseen
    <2>1. (buf' = buf \/ buf' = ShrinkTargeted(buf, call.start)) /\ inner' = inner
      BY <1>4 DEF Finish, ReadNothing
    <2> DEFINE g == ShrinkTargeted(buf, call.start)
    <2>2. g.len = buf.len /\ g.pos = buf.pos /\ \A i \in 1..buf.len : g.vec[i] = buf.vec[i]
      BY <1>1, <1>2, ShrinkAfterFill
    <2> HIDE DEF g
    <2>3. Still(g)
      BY <2>2, SameSuffix
    <2>. QED BY <1>3, <2>1, <2>3, PartsStill DEF g
  <1>5. ASSUME Abandoned \/ Capped \/ ReadFailed \/ ReadInterrupted
        PROVE  Unseen
    BY <1>3, <1>5, PartsStill DEF Abandoned, Capped, ReadFailed, ReadInterrupted, fillVars
  <1>6. ASSUME PrepareRead
        PROVE  Unseen
    <2>1. buf' = GrownForRead(buf, GrowthLimit) /\ inner' = inner
      BY <1>6 DEF PrepareRead
    <2> DEFINE g == GrownForRead(buf, GrowthLimit)
    <2>2. g.len = buf.len /\ g.pos = buf.pos /\ \A i \in 1..buf.len : g.vec[i] = buf.vec[i]
      BY <1>1, LimitType, GrownWellFormed
    <2> HIDE DEF g
    <2>3. Still(g)
      BY <2>2, SameSuffix
    <2>. QED BY <1>3, <2>1, <2>3 DEF g
  <1>7. ASSUME NEW n \in 1..StreamLen, ReadBytes(n)
        PROVE  Unseen
    <2>1. n \in Nat /\ inner' = inner + n /\ buf' = Absorb(buf, n, inner)
      BY <1>7, SourceAssumption DEF ReadBytes
    <2>2. n <= Remaining /\ buf.len + n <= buf.cap
      BY <1>1, <1>7, <2>1 DEF ReadBytes, Smaller
    <2> DEFINE g == Absorb(buf, n, inner)
    <2>3. /\ g.len = buf.len + n /\ g.pos = buf.pos
          /\ \A i \in 1..buf.len : g.vec[i] = buf.vec[i]
          /\ \A i \in (buf.len + 1)..(buf.len + n) : g.vec[i] = inner + (i - buf.len)
      BY <1>1, <2>1, <2>2, AbsorbWellFormed
    <2>4. buf' = g
      BY <2>1
    <2> HIDE DEF g
    <2>5. \A i \in 1..n : buf'.vec[buf.len + i] = inner + i
      <3> TAKE i \in 1..n
      <3>1. buf.len + i \in (buf.len + 1)..(buf.len + n) /\ (buf.len + i) - buf.len = i
        BY <1>1, <2>1
      <3>. QED BY <2>3, <2>4, <3>1
    <2>6. Absorbed(n)
      BY <1>2, <2>1, <2>2, <2>3, <2>4, <2>5 DEF Absorbed
    <2>. QED BY <2>6 DEF Unseen, Grew
  <1>8. Unseen
    BY <1>4, <1>5, <1>6, <1>7 DEF FillStep
  <1>. QED BY <1>2, <1>8 DEF Hides, Doing, Unseen

-----------------------------------------------------------------------------
(* The reads. *)
LEMMA NothingCopied ==
  ASSUME ReaderInv, buf' = buf, inner' = inner, lost' = lost
  PROVE  Copied(<<>>) /\ <<>> \in Seq(Nat) /\ <<>> = <<>> \o <<>>
  <1>1. /\ buf.len \in Nat /\ buf.pos \in Nat /\ buf.pos <= buf.len
        /\ Len(<<>>) = 0 /\ <<>> \in Seq(Nat) /\ <<>> = <<>> \o <<>>
    BY ReaderFacts
  <1>. QED BY <1>1 DEF Copied

LEMMA HeldCopied ==
  ASSUME ReaderInv, NEW n \in Nat, n <= buf.len - buf.pos,
         buf' = Consume(buf, n), inner' = inner, lost' = lost
  PROVE  LET bytes == SubSeq(Unconsumed(buf), 1, n)
         IN  Copied(bytes) /\ bytes \in Seq(Nat) /\ Len(bytes) = n
  <1> DEFINE bytes == SubSeq(Unconsumed(buf), 1, n)
  <1>1. /\ bytes \in Seq(Nat) /\ Len(bytes) = n
        /\ \A i \in 1..n : bytes[i] = buf.vec[buf.pos + i]
    BY HeldBytes
  <1>2. buf.pos + n <= USIZE_MAX
    BY HeldFits
  <1>3. buf'.vec = buf.vec /\ buf'.len = buf.len /\ buf'.pos = Smaller(buf.pos + n, buf.len)
    BY <1>2, ConsumeSuffix
  <1> HIDE DEF bytes
  <1>4. buf'.pos = buf.pos + n
    BY <1>3, ReaderFacts DEF Smaller
  <1>. QED BY <1>1, <1>3, <1>4 DEF Copied, bytes

LEMMA RestDrained ==
  ASSUME ReaderInv, NEW n \in Nat, n <= Remaining, buf' = Clear(buf), inner' = inner + n
  PROVE  Drained(Rest(n), n) /\ Rest(n) \in Seq(Nat)
  <1>1. /\ Rest(n) \in Seq(Nat) /\ Len(Rest(n)) = buf.len - buf.pos + n
        /\ \A i \in 1..(buf.len - buf.pos) : Rest(n)[i] = buf.vec[buf.pos + i]
        /\ \A i \in 1..n : Rest(n)[buf.len - buf.pos + i] = inner + i
    BY RestBytes
  <1>2. buf'.len = 0
    BY EmptyParts
  <1>. QED BY <1>1, <1>2 DEF Drained

(* The task of a read that runs at once, with the bytes that it gives.      *)
LEMMA ReadingTask ==
  ASSUME NEW op \in Reads, NEW want \in Nat,
         NEW result \in {"none", "ok", "eof", "invalid", "error"}, NEW got \in Seq(Nat)
  PROVE  LET t == [Ended(Task(op, want), result) EXCEPT !.got = got]
         IN  t.op = op /\ t.got = got
  <1> DEFINE e == Ended(Task(op, want), result)
  <1>1. Task(op, want) \in TaskType /\ Task(op, want).op = op
    BY TaskFields
  <1>2. e \in TaskType /\ e.op = op
    BY <1>1, EndedFields
  <1> HIDE DEF e
  <1>3. [e EXCEPT !.got = got].op = op /\ [e EXCEPT !.got = got].got = got
    BY <1>2, GotFields
  <1>. QED BY <1>3 DEF e

LEMMA ToldReading ==
  ASSUME NEW t, t.op \in Reads, t.got \in Seq(Nat), task' = t
  PROVE  Doing' = "reading" /\ task'.got = t.got /\ t.got = <<>> \o t.got
  <1>1. t.got = <<>> \o t.got
    BY ConcatEmptySeq
  <1>. QED BY <1>1 DEF Doing, Reads

LEMMA ReadingKind ==
  ASSUME ReaderInv, StartReading \/ ReadAll
  PROVE  Reading
  <1>1. /\ Requests \subseteq Nat /\ \A n \in 0..StreamLen : n \in Nat
        /\ {"read", "read_exact", "fill_buf", "read_to_end", "read_to_string"} = Reads
        /\ <<>> \in Seq(Nat)
    BY ReaderAssumption, SourceAssumption DEF Reads
  <1>2. ASSUME NEW op \in Reads, NEW want \in Nat,
               task' = Task(op, want) \/ task' = Ended(Task(op, want), "error"),
               buf' = buf, inner' = inner, lost' = lost
        PROVE  Reading
    <2>1. Doing' = "reading" /\ task'.got = <<>>
      BY <1>2, Told
    <2>2. Copied(<<>>) /\ <<>> \in Seq(Nat) /\ <<>> = <<>> \o <<>>
      BY <1>2, NothingCopied
    <2>3. Serves(<<>>)
      BY <2>1, <2>2 DEF Serves
    <2>. QED BY <2>3 DEF Reading
  <1>3. ASSUME NEW op \in Reads, NEW want \in Nat, StartRead(op, want) PROVE Reading
    BY <1>2, <1>3 DEF StartRead, Does
  <1>4. CASE ReserveFailed
    BY <1>1, <1>2, <1>4 DEF ReserveFailed, Does
  <1>5. ASSUME NEW want \in Nat, ReadExactHeld(want) PROVE Reading
    <2> DEFINE bytes == SubSeq(Unconsumed(buf), 1, want)
    <2>1. /\ want <= buf.len - buf.pos /\ buf' = Consume(buf, want)
          /\ inner' = inner /\ lost' = lost
          /\ task' = [Ended(Task("read_exact", want), "ok") EXCEPT !.got = bytes]
      BY <1>5 DEF ReadExactHeld, Does
    <2>2. Copied(bytes) /\ bytes \in Seq(Nat)
      BY <2>1, HeldCopied
    <2> HIDE DEF bytes
    <2> DEFINE t == [Ended(Task("read_exact", want), "ok") EXCEPT !.got = bytes]
    <2>3. t.op \in Reads /\ t.got = bytes /\ task' = t
      <3>0. "read_exact" \in Reads /\ "ok" \in {"none", "ok", "eof", "invalid", "error"}
            /\ want \in Nat /\ bytes \in Seq(Nat)
        BY <1>1, <2>2
      <3>1. t.op = "read_exact" /\ t.got = bytes
        BY ONLY <3>0, ReadingTask
      <3>. QED BY <1>1, <2>1, <3>1
    <2> HIDE DEF t
    <2>4. Doing' = "reading" /\ task'.got = bytes /\ bytes = <<>> \o bytes
      BY <2>2, <2>3, ToldReading
    <2>5. Serves(<<>>)
      BY <2>2, <2>4 DEF Serves
    <2>. QED BY <2>5 DEF Reading
  <1>6. ASSUME NEW n \in Nat, NEW result \in {"ok", "error"}, ReadToEnd(n, result) PROVE Reading
    <2> DEFINE bytes == Rest(n)
    <2>1. /\ n <= Remaining /\ buf' = Clear(buf) /\ inner' = inner + n /\ lost' = lost
          /\ task' = [Ended(Task("read_to_end", 0), result) EXCEPT !.got = bytes]
      BY <1>6 DEF ReadToEnd, Does
    <2>2. Drained(bytes, n) /\ bytes \in Seq(Nat)
      BY <2>1, RestDrained
    <2> HIDE DEF bytes
    <2> DEFINE t == [Ended(Task("read_to_end", 0), result) EXCEPT !.got = bytes]
    <2>3. t.op \in Reads /\ t.got = bytes /\ task' = t
      <3>0. "read_to_end" \in Reads /\ 0 \in Nat /\ bytes \in Seq(Nat)
            /\ result \in {"none", "ok", "eof", "invalid", "error"}
        BY <1>1, <2>2
      <3>1. t.op = "read_to_end" /\ t.got = bytes
        BY ONLY <3>0, ReadingTask
      <3>. QED BY <1>1, <2>1, <3>1
    <2> HIDE DEF t
    <2>4. Doing' = "reading" /\ task'.got = bytes /\ bytes = <<>> \o bytes
      BY <2>2, <2>3, ToldReading
    <2>5. Serves(<<>>)
      BY <2>1, <2>2, <2>4 DEF Serves
    <2>. QED BY <2>5 DEF Reading
  <1>7. ASSUME NEW n \in Nat, NEW result \in {"ok", "error"}, NEW valid, NEW wasEmpty,
               ReadToString(n, result, valid, wasEmpty)
        PROVE  Reading
    <2> DEFINE bytes == Rest(n)
               kept == valid /\ (result = "ok" \/ wasEmpty)
               got == IF kept THEN bytes ELSE <<>>
               answer == IF result = "ok" /\ ~valid THEN "invalid" ELSE result
    <2>1. /\ n <= Remaining /\ buf' = Clear(buf) /\ inner' = inner + n
          /\ task' = [Ended(Task("read_to_string", 0), answer) EXCEPT !.got = got]
          /\ lost' = IF kept THEN lost ELSE lost \cup {bytes[i] : i \in 1..Len(bytes)}
      BY <1>7 DEF ReadToString, Does
    <2>2. Drained(bytes, n) /\ bytes \in Seq(Nat)
      BY <2>1, RestDrained
    <2> HIDE DEF bytes
    <2>3. answer \in {"none", "ok", "eof", "invalid", "error"} /\ got \in Seq(Nat)
      BY <1>1, <2>2
    <2> HIDE DEF answer
    <2>4. Doing' = "reading" /\ task'.got = got /\ got = <<>> \o got
      <3> HIDE DEF got
      <3> DEFINE t == [Ended(Task("read_to_string", 0), answer) EXCEPT !.got = got]
      <3>1. t.op \in Reads /\ t.got = got /\ task' = t
        <4>1. t.op = "read_to_string" /\ t.got = got
          <5>1. "read_to_string" \in Reads /\ 0 \in Nat
            BY <1>1
          <5>. QED BY ONLY <2>3, <5>1, ReadingTask
        <4>. QED BY <1>1, <2>1, <4>1
      <3> HIDE DEF t
      <3>. QED BY <2>3, <3>1, ToldReading
    <2>5. CASE kept
      <3>1. Serves(<<>>)
        BY <2>1, <2>2, <2>4, <2>5 DEF Serves
      <3>. QED BY <3>1 DEF Reading
    <2>6. CASE ~kept
      <3>1. Drops
        BY <2>1, <2>2, <2>4, <2>6 DEF Drops
      <3>. QED BY <3>1 DEF Reading
    <2>. QED BY <2>5, <2>6
  <1>. QED BY <1>1, <1>3, <1>4, <1>5, <1>6, <1>7 DEF StartReading, ReadAll

(* What the client is told inside a call. *)
LEMMA ToldInside ==
  ASSUME ReaderInv, NEW result \in {"none", "ok", "eof", "invalid", "error"},
         \/ task' = task \/ task' = Ended(task, result) \/ task' = [task EXCEPT !.pc = "filling"]
  PROVE  Doing' = Doing /\ task'.got = task.got
  <1>1. task \in TaskType
    BY ReaderFacts
  <1>2. task'.op = task.op /\ task'.got = task.got
    BY <1>1 DEF Ended, TaskType
  <1>. QED BY <1>2 DEF Doing

LEMMA GivenToTask ==
  ASSUME ReaderInv, task.pc # "idle", NEW bytes \in Seq(Nat), Len(bytes) <= Wanted,
         task' = Received(bytes), Doing = "reading",
         Copied(bytes) \/ ((\E n : Drained(bytes, n)) /\ lost' = lost)
  PROVE  Serves(task.got)
  <1>1. task'.got = task.got \o bytes /\ task'.op = task.op
    BY ReceivedTask
  <1>2. Doing' = "reading"
    BY <1>1 DEF Doing
  <1>. QED BY <1>1, <1>2 DEF Serves

LEMMA WorkKind ==
  ASSUME ReaderInv, Waiting, Work
  PROVE  Hides \/ Serves(task.got)
  <1>1. /\ inner \in Nat /\ Remaining \in Nat /\ buf.len \in Nat /\ buf.pos \in Nat
        /\ buf.pos <= buf.len /\ task \in TaskType /\ task.want \in Nat /\ Len(task.got) \in Nat
        /\ task.pc # "idle" => Len(task.got) <= task.want
    BY ReaderFacts DEF ReaderInv, TaskType
  <1>2. task.pc # "idle" => Wanted \in Nat
    BY <1>1 DEF Wanted
  <1>3. task.pc # "idle" => Doing = "reading"
    BY DEF Waiting, Doing, Reads
  <1>4. CASE FillStep /\ UNCHANGED <<maxCapacity, task>>
    BY <1>4, FillStepKind
  <1>5. ASSUME NEW n \in 0..StreamLen, ReadDirect(n) PROVE Serves(task.got)
    <2> DEFINE bytes == Run(inner, n)
    <2>1. /\ n \in Nat /\ task.pc # "idle" /\ Exhausted /\ buf.len - buf.pos = 0
          /\ buf' = Clear(buf) /\ inner' = inner + n /\ lost' = lost /\ task' = Received(bytes)
      BY <1>1, <1>5, SourceAssumption DEF ReadDirect, Bypasses, Exhausted
    <2>2. n <= Wanted /\ n <= Remaining
      BY <1>1, <1>2, <1>5, <2>1 DEF ReadDirect, Smaller
    <2>3. /\ bytes \in Seq(Nat) /\ Len(bytes) = n /\ \A i \in 1..n : bytes[i] = inner + i
      <3>1. \A i \in 1..n : bytes[i] = inner + i
        BY DEF Run
      <3>. QED BY <1>1, <2>1, <3>1, RunBytes
    <2> HIDE DEF bytes
    <2>4. Drained(bytes, n)
      <3>1. buf'.len = 0
        BY <2>1, EmptyParts
      <3>2. \A i \in 1..n : bytes[buf.len - buf.pos + i] = inner + i
        BY <2>1, <2>3
      <3>. QED BY <1>1, <2>1, <2>2, <2>3, <3>1, <3>2 DEF Drained
    <2>. QED BY <1>3, <2>1, <2>2, <2>3, <2>4, GivenToTask
  <1>6. ASSUME NEW interrupted \in BOOLEAN, ReadDirectFailed(interrupted) PROVE Hides
    <2>1. /\ Exhausted /\ buf' = Clear(buf) /\ inner' = inner /\ lost' = lost
          /\ task' = task \/ task' = Ended(task, "error")
      BY <1>6 DEF ReadDirectFailed, Bypasses
    <2>2. Doing' = Doing /\ task'.got = task.got
      BY <2>1, ToldInside
    <2>. QED BY <2>1, <2>2, EmptyParts DEF Hides, Emptied
  <1>7. CASE Refill
    <2>1. /\ Exhausted /\ buf' = Clear(buf) /\ inner' = inner /\ lost' = lost
          /\ task' = [task EXCEPT !.pc = "filling"]
      BY <1>7 DEF Refill
    <2>2. Doing' = Doing /\ task'.got = task.got
      BY <2>1, ToldInside
    <2>. QED BY <2>1, <2>2, EmptyParts DEF Hides, Emptied
  <1>8. CASE RefillFailed
    <2>1. /\ buf' = buf /\ inner' = inner /\ lost' = lost /\ task' = Ended(task, "error")
      BY <1>8 DEF RefillFailed, fillVars
    <2>2. Doing' = Doing /\ task'.got = task.got
      BY <2>1, ToldInside
    <2>. QED BY <2>1, <2>2, PartsStill DEF Hides
  <1>9. CASE CopyOut
    <2> DEFINE n == IF task.op = "fill_buf" THEN 0 ELSE Smaller(Wanted, buf.len - buf.pos)
               bytes == SubSeq(Unconsumed(buf), 1, n)
    <2>1. /\ task.pc # "idle" /\ buf' = Consume(buf, n) /\ inner' = inner /\ lost' = lost
          /\ task' = Received(bytes)
      BY <1>9 DEF CopyOut
    <2>2. n \in Nat /\ n <= buf.len - buf.pos /\ n <= Wanted
      BY <1>1, <1>2, <2>1 DEF Smaller
    <2> HIDE DEF n
    <2>3. Copied(bytes) /\ bytes \in Seq(Nat) /\ Len(bytes) = n
      BY <2>1, <2>2, HeldCopied
    <2> HIDE DEF bytes
    <2>. QED BY <1>3, <2>1, <2>2, <2>3, GivenToTask
  <1>. QED BY <1>4, <1>5, <1>6, <1>7, <1>8, <1>9 DEF Work
-----------------------------------------------------------------------------
(***************************************************************************)
(* Every step is of one of these kinds, and each keeps what is retained.   *)
(***************************************************************************)
LEMMA NextKind ==
  ASSUME ReaderInv, Waiting, [Next]_vars
  PROVE  Hides \/ Holds \/ Skips \/ Jumps \/ Reading
  <1>1. CASE UNCHANGED vars
    <2>1. buf' = buf /\ inner' = inner /\ lost' = lost /\ task' = task
      BY <1>1 DEF vars
    <2>2. Still(buf')
      BY <2>1, PartsStill
    <2>. QED BY <2>1, <2>2 DEF Hides, Doing
  <1>. QED BY <1>1, ManageKind, FillCallKind, ReadingKind, SeekKind, WorkKind DEF Next, Reading

LEMMA KindRetains ==
  ASSUME ReaderInv, Retained, Hides \/ Holds \/ Skips \/ Jumps \/ Reading
  PROVE  Retained'
  <1>1. ASSUME buf'.vec = buf.vec, buf'.len = buf.len, inner' = inner, lost' = lost
        PROVE  Kept
    BY <1>1, SameSuffix, StillKept
  <1>2. ASSUME Fetches PROVE Kept \/ Grew
    BY <1>2 DEF Fetches, Still, Kept
  <1>3. CASE Hides
    BY <1>3, StillKept, EmptiedRetained, KeptRetained, GrewRetained DEF Hides
  <1>4. CASE Holds
    BY <1>2, <1>4, KeptRetained, GrewRetained DEF Holds
  <1>5. CASE Skips
    BY <1>1, <1>5, EmptiedRetained, KeptRetained DEF Skips
  <1>6. CASE Jumps
    BY <1>6, StillKept, EmptiedRetained, KeptRetained DEF Jumps
  <1>7. ASSUME NEW bytes, Copied(bytes) PROVE Kept
    BY <1>1, <1>7 DEF Copied
  <1>8. ASSUME NEW bytes, NEW n, Drained(bytes, n), lost \subseteq lost' PROVE Emptied
    BY <1>8 DEF Drained, Emptied
  <1>9. CASE Reading
    BY <1>7, <1>8, <1>9, EmptiedRetained, KeptRetained DEF Reading, Serves, Drops
  <1>. QED BY <1>3, <1>4, <1>5, <1>6, <1>9

LEMMA RetainedHolds == Spec => []Retained
  <1>1. Init => Retained
    <2> SUFFICES ASSUME Init PROVE Retained
      OBVIOUS
    <2>1. buf.len = 0
      BY InitHolds
    <2>2. 1..0 = {}
      OBVIOUS
    <2>. QED BY <2>1, <2>2 DEF Retained, Given, Sorted, Covered, Contiguous
  <1>2. ReaderInv /\ Waiting /\ Retained /\ [Next]_vars => Retained'
    BY NextKind, KindRetains
  <1>3. Verdicts => Waiting
    BY DEF Verdicts
  <1>. QED BY <1>1, <1>2, <1>3, VerdictsHold, ReaderInvHolds, PTL DEF Spec

LEMMA RetainedOrder ==
  ASSUME ReaderInv, Retained
  PROVE  BytesInOrder
  <1>1. /\ inner \in Nat /\ buf.len \in Nat
        /\ \A i \in 1..buf.len : buf.vec[i] \in 1..inner
    BY ReaderFacts DEF Retained, Given
  <1>2. ASSUME NEW i \in 1..buf.len, NEW x \in (buf.vec[i] + 1)..inner, x \notin lost
        PROVE  \E j \in (i + 1)..buf.len : buf.vec[j] = x
    <2>1. buf.vec[i] \in Nat /\ x \in buf.vec[i]..inner /\ x > buf.vec[i]
      BY <1>1
    <2>2. PICK j \in i..buf.len : buf.vec[j] = x
      BY <1>2, <2>1 DEF Retained, Covered
    <2>3. j # i
      BY <2>1, <2>2
    <2>. QED BY <2>2, <2>3
  <1>3. ASSUME NEW i \in 2..buf.len
        PROVE  /\ buf.vec[i - 1] < buf.vec[i]
               /\ (buf.vec[i - 1] + 1)..(buf.vec[i] - 1) \subseteq lost
    <2>1. i - 1 \in 1..buf.len /\ i \in 1..buf.len /\ (i - 1) + 1 = i
      BY <1>1
    <2>2. buf.vec[i - 1] < buf.vec[i]
      BY <2>1 DEF Retained, Sorted
    <2>3. ASSUME NEW x \in (buf.vec[i - 1] + 1)..(buf.vec[i] - 1), x \notin lost
          PROVE  FALSE
      <3>0. buf.vec[i] \in Nat /\ buf.vec[i] <= inner /\ buf.vec[i - 1] \in Nat
        BY <1>1, <2>1
      <3>1. x \in (buf.vec[i - 1] + 1)..inner /\ x < buf.vec[i]
        BY <1>1, <3>0
      <3>2. PICK j \in i..buf.len : buf.vec[j] = x
        BY <1>2, <2>1, <2>3, <3>1
      <3>3. j \in 1..buf.len /\ i < j
        BY <2>1, <3>0, <3>1, <3>2
      <3>4. buf.vec[i] < buf.vec[j]
        BY <2>1, <3>3 DEF Retained, Sorted
      <3>. QED BY <3>0, <3>1, <3>2, <3>4
    <2>. QED BY <2>2, <2>3
  <1>4. ASSUME buf.len > 0, NEW x \in (buf.vec[buf.len] + 1)..inner, x \notin lost
        PROVE  FALSE
    <2>1. buf.len \in 1..buf.len /\ (buf.len + 1)..buf.len = {}
      BY <1>1, <1>4
    <2>. QED BY <1>2, <1>4, <2>1
  <1>. QED BY <1>1, <1>3, <1>4 DEF BytesInOrder

(***************************************************************************)
(* The bytes that a reader retains are consecutive bytes of the source and *)
(* end where the source stands, but for those that a failed call or the    *)
(* client itself took: whatever the client calls, seeks included.          *)
(***************************************************************************)
THEOREM ReaderBytesInOrderHolds == Spec => []BytesInOrder
  <1>1. ReaderInv /\ Retained => BytesInOrder
    BY RetainedOrder
  <1>. QED BY <1>1, RetainedHolds, ReaderInvHolds, PTL

-----------------------------------------------------------------------------
(* Only bytes that the source has can be lost. *)
LostWithin == lost \subseteq 1..StreamLen

LEMMA TakenLost ==
  ASSUME ReaderInv, LostWithin, NEW n \in Nat, n <= Remaining,
         lost' = lost \cup (inner + 1)..(inner + n)
  PROVE  LostWithin'
  <1>1. inner \in Nat /\ Remaining \in Nat /\ StreamLen \in Nat
    BY ReaderFacts, SourceAssumption
  <1>2. n > 0 => inner + n <= StreamLen
    BY <1>1, SourceFacts
  <1>. QED BY <1>1, <1>2 DEF LostWithin

LEMMA StringLost ==
  ASSUME ReaderInv, Retained, LostWithin, NEW n \in Nat, NEW result, NEW valid, NEW wasEmpty,
         ReadToString(n, result, valid, wasEmpty)
  PROVE  LostWithin'
  <1>1. /\ inner \in Nat /\ Remaining \in Nat /\ StreamLen \in Nat /\ buf.len \in Nat
        /\ buf.pos \in Nat /\ buf.pos <= buf.len /\ n <= Remaining
    BY ReaderFacts, SourceAssumption DEF ReadToString
  <1>2. n > 0 => inner + n <= StreamLen
    BY <1>1, SourceFacts
  <1>3. /\ Len(Rest(n)) = buf.len - buf.pos + n
        /\ \A i \in 1..(buf.len - buf.pos) : Rest(n)[i] = buf.vec[buf.pos + i]
        /\ \A i \in 1..n : Rest(n)[buf.len - buf.pos + i] = inner + i
    BY RestBytes
  <1>4. ASSUME NEW i \in 1..Len(Rest(n)) PROVE Rest(n)[i] \in 1..StreamLen
    <2>1. CASE i <= buf.len - buf.pos
      <3>1. buf.pos + i \in 1..buf.len /\ Rest(n)[i] = buf.vec[buf.pos + i] /\ buf.len > 0
        <4>1. i \in Nat /\ i > 0
          BY <1>1, <1>3
        <4>2. i \in 1..(buf.len - buf.pos) /\ buf.pos + i \in 1..buf.len /\ buf.len > 0
          BY <1>1, <2>1, <4>1
        <4>. QED BY <1>3, <4>2
      <3>2. buf.vec[buf.pos + i] \in 1..inner /\ inner <= StreamLen
        BY <3>1 DEF Retained, Given
      <3>. QED BY <1>1, <3>1, <3>2
    <2>2. CASE i > buf.len - buf.pos
      <3> DEFINE j == i - (buf.len - buf.pos)
      <3>1. j \in 1..n /\ i = buf.len - buf.pos + j
        <4>1. i \in Nat /\ i <= buf.len - buf.pos + n
          BY <1>1, <1>3
        <4>. QED BY <1>1, <2>2, <4>1
      <3>2. Rest(n)[i] = inner + j
        BY <1>3, <3>1
      <3>. QED BY <1>1, <1>2, <3>1, <3>2
    <2>. QED BY <1>1, <1>3, <2>1, <2>2
  <1>5. lost' \subseteq lost \cup {Rest(n)[i] : i \in 1..Len(Rest(n))}
    BY DEF ReadToString
  <1>. QED BY <1>4, <1>5 DEF LostWithin

LEMMA NextLost ==
  ASSUME ReaderInv, Retained, LostWithin, [Next]_vars
  PROVE  LostWithin'
  <1>1. Requests \subseteq Nat /\ StreamLen \in Nat /\ Remaining \in Nat
    BY ReaderAssumption, SourceAssumption, ReaderFacts
  <1>2. CASE Manage
    <2>1. ASSUME NEW n \in Nat, GetMutCall(n) PROVE LostWithin'
      <3>1. lost' = lost \cup (inner + 1)..(inner + n) /\ n <= Remaining
        BY <1>1, <2>1 DEF GetMutCall
      <3>. QED BY <3>1, TakenLost
    <2>2. CASE ~(\E n \in Requests : GetMutCall(n))
      <3>1. lost' = lost
        BY <1>2, <2>2 DEF Manage, ShrinkCall, CompactCall, ClearCall, DiscardCall, TakeBufferCall,
           TakeConsumedCall, ConsumeCall, IntoPartsCall, Manages
      <3>. QED BY <3>1 DEF LostWithin
    <2>. QED BY <1>1, <2>1, <2>2
  <1>3. CASE FillCall
    <2>1. ASSUME NEW amt \in Nat, NEW n \in 0..amt, NEW result \in {"eof", "error"},
                 FillExactFailed(amt, n, result)
          PROVE  LostWithin'
      <3>1. lost' = lost \cup (inner + 1)..(inner + n) /\ n <= Remaining /\ n \in Nat
        BY <1>1, <2>1 DEF FillExactFailed
      <3>. QED BY <3>1, TakenLost
    <2>2. ASSUME NEW amt \in Nat, FillExact(amt) PROVE LostWithin'
      <3>1. CASE FillRefused(amt) \/ FillExactDone(amt)
        BY <3>1 DEF FillRefused, FillExactDone, LostWithin
      <3>. QED BY <2>1, <2>2, <3>1 DEF FillExact
    <2>3. CASE ~(\E amt \in Requests : FillExact(amt))
      <3>1. lost' = lost
        BY <1>3, <2>3 DEF FillCall, Fills, FillOnce, FillWhile, FillToEnd, FillUntil, FillUntilStr,
           FillAmount, FillRefused, StartFill, StartFillAmount
      <3>. QED BY <3>1 DEF LostWithin
    <2>. QED BY <1>1, <2>2, <2>3
  <1>4. CASE StartReading \/ SeekCall \/ UNCHANGED vars
    <2>1. lost' = lost
      BY <1>4 DEF StartReading, StartRead, ReadExactHeld, SeekCall, SeekFailed, SeekAbsolute,
         SeekCurrent, SeekOnce, SeekTwice, SeekHalfway, SeekRelative, Moved, vars
    <2>. QED BY <2>1 DEF LostWithin
  <1>5. CASE ReadAll
    <2>1. \A n \in 0..StreamLen : n \in Nat
      BY <1>1
    <2>2. CASE lost' = lost
      BY <2>2 DEF LostWithin
    <2>. QED BY <1>5, <2>1, <2>2, StringLost DEF ReadAll, ReserveFailed, ReadToEnd
  <1>6. CASE Work
    <2>1. CASE FillStep
      BY <2>1, ReaderFacts, FillStepCall DEF LostWithin
    <2>2. CASE ~FillStep
      <3>1. lost' = lost
        BY <1>6, <2>2 DEF Work, ReadDirect, ReadDirectFailed, Refill, RefillFailed, CopyOut, fillVars
      <3>. QED BY <3>1 DEF LostWithin
    <2>. QED BY <2>1, <2>2
  <1>. QED BY <1>2, <1>3, <1>4, <1>5, <1>6 DEF Next

(***************************************************************************)
(* The variables keep to the types of the code, the source is never moved  *)
(* past what it can count, and only bytes that it has are ever lost.       *)
(***************************************************************************)
THEOREM ReaderTypeOKHolds == Spec => []TypeOK
  <1>1. Init => LostWithin
    BY DEF Init, LostWithin
  <1>2. Spec => []LostWithin
    BY <1>1, NextLost, ReaderInvHolds, RetainedHolds, PTL DEF Spec
  <1>3. ReaderInv /\ LostWithin => TypeOK
    <2> SUFFICES ASSUME ReaderInv, LostWithin PROVE TypeOK
      OBVIOUS
    <2>1. inner \in 0..MAX_POSITION /\ buf \in BufferType
      BY Here, ReaderFacts DEF WellFormed
    <2>. QED BY <2>1, ReaderFacts DEF LostWithin, TypeOK
  <1>. QED BY <1>2, <1>3, ReaderInvHolds, PTL
-----------------------------------------------------------------------------
(***************************************************************************)
(* Where the client is.  The bytes behind that position are the unconsumed *)
(* ones, in order, and lost ones.                                          *)
(***************************************************************************)
LEMMA Ahead ==
  ASSUME ReaderInv, Retained
  PROVE  /\ LogicalPosition \in Nat /\ LogicalPosition <= inner
         /\ \A i \in (buf.pos + 1)..buf.len :
              buf.vec[i] > LogicalPosition /\ buf.vec[i] <= inner /\ buf.vec[i] \in Nat
         /\ \A x \in (LogicalPosition + 1)..inner :
              x \in lost \/ \E i \in (buf.pos + 1)..buf.len : buf.vec[i] = x
         /\ lost = {} => LogicalPosition = inner - (buf.len - buf.pos)
  <1>1. /\ inner \in Nat /\ buf.len \in Nat /\ buf.pos \in Nat /\ buf.pos <= buf.len
        /\ \A i \in 1..buf.len : buf.vec[i] \in 1..inner
    BY ReaderFacts DEF Retained, Given
  <1>2. CASE Exhausted
    <2>1. LogicalPosition = inner /\ buf.pos = buf.len
      BY <1>1, <1>2 DEF LogicalPosition, Exhausted
    <2>. QED BY <1>1, <2>1
  <1>3. CASE ~Exhausted
    <2> DEFINE f == buf.pos + 1
    <2>1. f \in 1..buf.len /\ LogicalPosition = buf.vec[f] - 1
      BY <1>1, <1>3 DEF LogicalPosition, Exhausted
    <2>2. buf.vec[f] \in 1..inner
      BY <1>1, <2>1
    <2>3. ASSUME NEW i \in f..buf.len
          PROVE  buf.vec[f] <= buf.vec[i] /\ buf.vec[i] \in 1..inner
      <3>1. i \in 1..buf.len /\ buf.vec[i] \in 1..inner
        BY <1>1, <2>1
      <3>2. f < i => buf.vec[f] < buf.vec[i]
        BY <2>1, <3>1 DEF Retained, Sorted
      <3>3. f = i => buf.vec[f] = buf.vec[i]
        OBVIOUS
      <3>4. f < i \/ f = i
        BY <2>1
      <3> HIDE DEF f
      <3>. QED BY <1>1, <2>2, <3>1, <3>2, <3>3, <3>4
    <2>4. ASSUME NEW x \in buf.vec[f]..inner
          PROVE  x \in lost \/ \E i \in f..buf.len : buf.vec[i] = x
      BY <2>1 DEF Retained, Covered
    <2>5. lost = {} => buf.vec[f] = inner - buf.len + f
      BY <2>1 DEF Retained, Contiguous
    <2>6. \A i \in f..buf.len : buf.vec[i] > LogicalPosition /\ buf.vec[i] <= inner /\ buf.vec[i] \in Nat
      <3> HIDE DEF f
      <3>. QED BY <1>1, <2>1, <2>2, <2>3
    <2>7. LogicalPosition \in Nat /\ LogicalPosition <= inner /\ LogicalPosition + 1 = buf.vec[f]
      <3> HIDE DEF f
      <3>. QED BY <1>1, <2>1, <2>2
    <2>8. lost = {} => LogicalPosition = inner - (buf.len - buf.pos)
      BY <1>1, <2>1, <2>5
    <2>. QED BY <2>4, <2>6, <2>7, <2>8
  <1>. QED BY <1>2, <1>3

(* A step that consumes nothing: the position stays, or passes lost bytes. *)
LEMMA StillPosition ==
  ASSUME ReaderInv, Retained, Still(buf')
  PROVE  IF Exhausted THEN LogicalPosition' = inner' ELSE LogicalPosition' = LogicalPosition
  <1>1. /\ inner \in Nat /\ buf.len \in Nat /\ buf.pos \in Nat /\ buf.pos <= buf.len
    BY ReaderFacts
  <1>2. PICK k : Suffix(buf', k) /\ buf'.pos \in Nat /\ buf'.pos = buf.pos - k
    BY DEF Still
  <1>3. /\ k \in Nat /\ buf'.len \in Nat /\ buf'.len = buf.len - k
        /\ \A i \in 1..buf'.len : buf'.vec[i] = buf.vec[k + i]
    BY <1>2 DEF Suffix
  <1>4. Exhausted' <=> Exhausted
    BY <1>1, <1>2, <1>3 DEF Exhausted
  <1>5. CASE Exhausted
    BY <1>4, <1>5 DEF LogicalPosition
  <1>6. CASE ~Exhausted
    <2>1. buf'.pos + 1 \in 1..buf'.len /\ k + (buf'.pos + 1) = buf.pos + 1
      BY <1>1, <1>2, <1>3, <1>6 DEF Exhausted
    <2>2. buf'.vec[buf'.pos + 1] = buf.vec[buf.pos + 1]
      BY <1>3, <2>1
    <2>. QED BY <1>4, <1>6, <2>2 DEF LogicalPosition
  <1>. QED BY <1>5, <1>6

LEMMA GrewPosition ==
  ASSUME ReaderInv, Retained, Grew
  PROVE  LogicalPosition' = LogicalPosition
  <1>1. /\ inner \in Nat /\ buf.len \in Nat /\ buf.pos \in Nat /\ buf.pos <= buf.len
    BY ReaderFacts
  <1>2. PICK n : Absorbed(n)
    BY DEF Grew
  <1>3. /\ n \in Nat /\ inner' = inner + n /\ buf'.len = buf.len + n /\ buf'.pos = buf.pos
        /\ \A i \in 1..buf.len : buf'.vec[i] = buf.vec[i]
        /\ \A i \in 1..n : buf'.vec[buf.len + i] = inner + i
    BY <1>2 DEF Absorbed
  <1>4. CASE ~Exhausted
    <2>1. buf.pos + 1 \in 1..buf.len /\ ~Exhausted'
      BY <1>1, <1>3, <1>4 DEF Exhausted
    <2>2. buf'.vec[buf'.pos + 1] = buf.vec[buf.pos + 1]
      BY <1>3, <2>1
    <2>. QED BY <1>4, <2>1, <2>2 DEF LogicalPosition
  <1>5. CASE Exhausted /\ n = 0
    <2>1. Exhausted' /\ inner' = inner
      BY <1>1, <1>3, <1>5 DEF Exhausted
    <2>. QED BY <1>5, <2>1 DEF LogicalPosition
  <1>6. CASE Exhausted /\ n > 0
    <2>1. buf'.pos + 1 = buf.len + 1 /\ 1 \in 1..n /\ ~Exhausted'
      BY <1>1, <1>3, <1>6 DEF Exhausted
    <2>2. buf'.vec[buf'.pos + 1] = inner + 1
      BY <1>3, <2>1
    <2>. QED BY <1>1, <1>6, <2>1, <2>2 DEF LogicalPosition
  <1>. QED BY <1>3, <1>4, <1>5, <1>6

(* Once the buffer is empty, the client is where the source is. *)
LEMMA EmptiedPosition ==
  ASSUME ReaderInv', buf'.len = 0
  PROVE  LogicalPosition' = inner'
  <1>1. WellFormed(buf')
    BY DEF ReaderInv, FillInvariant
  <1>2. buf'.pos \in Nat
    BY <1>1, Fields
  <1>3. Exhausted'
    BY <1>2 DEF Exhausted
  <1>. QED BY <1>3 DEF LogicalPosition
-----------------------------------------------------------------------------
(***************************************************************************)
(* Each kind of step is a step of the cursor, or none at all.              *)
(***************************************************************************)
LEMMA HidesStep ==
  ASSUME ReaderInv, ReaderInv', Retained, Hides
  PROVE  UNCHANGED Cursor!vars
  <1>1. /\ Doing' = Doing /\ task'.got = task.got /\ lost' = lost
        /\ \/ Still(buf') /\ inner' = inner
           \/ Grew
           \/ Exhausted /\ Emptied /\ inner' = inner
    BY DEF Hides
  <1>2. CASE Still(buf') /\ inner' = inner
    BY <1>1, <1>2, StillPosition DEF Cursor!vars, LogicalPosition
  <1>3. CASE Grew
    BY <1>1, <1>3, GrewPosition DEF Cursor!vars
  <1>4. CASE Exhausted /\ Emptied /\ inner' = inner
    <2>1. LogicalPosition = inner
      BY <1>4 DEF LogicalPosition
    <2>2. LogicalPosition' = inner'
      BY <1>4, EmptiedPosition DEF Emptied
    <2>. QED BY <1>1, <1>4, <2>1, <2>2 DEF Cursor!vars
  <1>. QED BY <1>1, <1>2, <1>3, <1>4

LEMMA HoldsStep ==
  ASSUME ReaderInv, Retained, Holds
  PROVE  Cursor!Hold /\ lost \subseteq lost'
  <1>1. Doing' = "holding" /\ task'.got = <<>> /\ Fetches
    BY DEF Holds
  <1>2. LogicalPosition \in Nat /\ inner \in Nat /\ LogicalPosition <= inner
    BY Ahead, ReaderFacts
  <1>3. CASE LogicalPosition' = LogicalPosition
    <2>1. (LogicalPosition + 1)..LogicalPosition = {} /\ LogicalPosition <= LogicalPosition
      BY <1>2
    <2>2. lost \subseteq lost'
      BY <1>1 DEF Fetches, Passed, Grew, Absorbed
    <2>. QED BY <1>1, <1>3, <2>1, <2>2 DEF Cursor!Hold, Cursor!Between
  <1>4. ASSUME Exhausted, Still(buf'), NEW n, Passed(n) PROVE Cursor!Hold /\ lost \subseteq lost'
    <2>1. LogicalPosition = inner /\ LogicalPosition' = inner'
      BY <1>4, StillPosition DEF LogicalPosition
    <2>2. n \in Nat /\ inner' = inner + n /\ lost' = lost \cup (inner + 1)..(inner + n)
      BY <1>4 DEF Passed
    <2>3. inner <= inner + n
      BY <1>2, <2>2
    <2>. QED BY <1>1, <2>1, <2>2, <2>3 DEF Cursor!Hold, Cursor!Between
  <1>. QED BY <1>1, <1>3, <1>4, StillPosition, GrewPosition DEF Fetches

LEMMA SkipsStep ==
  ASSUME ReaderInv, ReaderInv', Retained, Skips
  PROVE  Cursor!Skip /\ lost \subseteq lost'
  <1>1. Doing' = "skipping" /\ task'.got = <<>> /\ inner' = inner /\ lost' = lost
    BY DEF Skips
  <1>2. /\ LogicalPosition \in Nat /\ inner \in Nat /\ LogicalPosition <= inner
        /\ buf.len \in Nat /\ buf.pos \in Nat
        /\ \A i \in (buf.pos + 1)..buf.len :
             buf.vec[i] > LogicalPosition /\ buf.vec[i] <= inner /\ buf.vec[i] \in Nat
    BY Ahead, ReaderFacts
  <1>3. CASE Emptied
    BY <1>1, <1>2, <1>3, EmptiedPosition DEF Emptied, Cursor!Skip
  <1>4. CASE buf'.vec = buf.vec /\ buf'.len = buf.len /\ buf.pos <= buf'.pos
    <2>1. WellFormed(buf')
      BY DEF ReaderInv, FillInvariant
    <2>2. buf'.pos \in Nat
      BY <2>1, Fields
    <2>3. CASE Exhausted'
      BY <1>1, <1>2, <2>3 DEF LogicalPosition, Cursor!Skip
    <2>4. CASE ~Exhausted'
      <3>1. buf'.pos + 1 \in (buf.pos + 1)..buf.len
        BY <1>2, <1>4, <2>2, <2>4 DEF Exhausted
      <3>2. buf.vec[buf'.pos + 1] > LogicalPosition /\ buf.vec[buf'.pos + 1] \in Nat
        BY <1>2, <3>1
      <3>3. LogicalPosition' = buf.vec[buf'.pos + 1] - 1
        BY <1>4, <2>4 DEF LogicalPosition
      <3>4. LogicalPosition <= LogicalPosition'
        BY <1>2, <3>2, <3>3
      <3>. QED BY <1>1, <3>4 DEF Cursor!Skip
    <2>. QED BY <2>3, <2>4
  <1>. QED BY <1>1, <1>3, <1>4 DEF Skips

LEMMA JumpsStep ==
  ASSUME ReaderInv, ReaderInv', Retained, Jumps
  PROVE  Cursor!Move /\ lost \subseteq lost'
  <1>1. Doing' = "moving" /\ task'.got = <<>> /\ lost' = lost
    BY DEF Jumps
  <1>2. WellFormed(buf') /\ inner' \in Nat
    BY DEF ReaderInv, FillInvariant
  <1>3. buf'.pos \in Nat /\ buf'.len \in Nat
    BY <1>2, Fields
  <1>4. CASE Emptied
    BY <1>1, <1>2, <1>4, EmptiedPosition DEF Emptied, Cursor!Move
  <1>5. ASSUME NEW k, Suffix(buf', k) PROVE LogicalPosition' \in Nat
    <2>1. CASE Exhausted'
      BY <1>2, <2>1 DEF LogicalPosition
    <2>2. CASE ~Exhausted'
      <3>1. /\ k \in Nat /\ buf'.len = buf.len - k /\ buf.len \in Nat /\ inner \in Nat
            /\ \A i \in 1..buf'.len : buf'.vec[i] = buf.vec[k + i]
        BY <1>5, ReaderFacts DEF Suffix
      <3>2. buf'.pos + 1 \in 1..buf'.len /\ k + (buf'.pos + 1) \in 1..buf.len
        BY <1>3, <2>2, <3>1 DEF Exhausted
      <3>3. buf'.vec[buf'.pos + 1] \in 1..inner
        BY <3>1, <3>2 DEF Retained, Given
      <3>4. buf'.vec[buf'.pos + 1] - 1 \in Nat
        BY <3>1, <3>3
      <3>. QED BY <2>2, <3>4 DEF LogicalPosition
    <2>. QED BY <2>1, <2>2
  <1>. QED BY <1>1, <1>4, <1>5 DEF Jumps, Cursor!Move

(***************************************************************************)
(* The bytes are those from the cursor on, so the cursor serves them.      *)
(***************************************************************************)
LEMMA ServeStep ==
  ASSUME NEW before \in Seq(Nat), NEW bytes \in Seq(Nat),
         Doing' = "reading", task'.got = before \o bytes,
         LogicalPosition <= LogicalPosition',
         \A i \in 2..Len(bytes) : bytes[i - 1] < bytes[i],
         \A i \in 1..Len(bytes) : bytes[i] \in (LogicalPosition + 1)..LogicalPosition',
         \A x \in (LogicalPosition + 1)..LogicalPosition' :
           x \in lost' \/ \E i \in 1..Len(bytes) : bytes[i] = x
  PROVE  Cursor!Serve(before)
  <1> DEFINE m == Len(before)
             n == Len(task'.got) - Len(before)
             fresh == [i \in 1..n |-> task'.got[Len(before) + i]]
             given == {fresh[i] : i \in 1..n}
  <1>1. Len(before) \in Nat /\ Len(bytes) \in Nat /\ Len(task'.got) = Len(before) + Len(bytes)
    BY ConcatProperties
  <1>2. n = Len(bytes) /\ n >= 0
    BY <1>1
  <1>3. \A i \in 1..n : fresh[i] = bytes[i]
    <2> TAKE i \in 1..n
    <2>1. Len(before) + i \in 1..(Len(before) + Len(bytes)) /\ Len(before) + i > Len(before)
          /\ (Len(before) + i) - Len(before) = i
      BY <1>1, <1>2
    <2>2. (before \o bytes)[Len(before) + i] = bytes[i]
      BY <2>1, ConcatProperties
    <2>. QED BY <2>2
  <1>4. SubSeq(task'.got, 1, Len(before)) = before
    <2> DEFINE all == before \o bytes
               start == SubSeq(all, 1, Len(before))
    <2>1. all \in Seq(Nat) /\ \A i \in 1..Len(before) : all[i] = before[i]
      BY <1>1, ConcatProperties
    <2>2. Len(all) = Len(before) + Len(bytes)
      BY <1>1
    <2> HIDE DEF all
    <2>3. /\ start \in Seq(Nat)
          /\ Len(start) = (IF 1 <= Len(before) THEN Len(before) - 1 + 1 ELSE 0)
          /\ \A i \in 1..(Len(before) - 1 + 1) : start[i] = all[1 + i - 1]
      <3>1. 1 \in 1..(Len(all) + 1) /\ Len(before) \in 0..Len(all)
        BY <1>1, <2>2
      <3>. QED BY <2>1, <3>1, SubSeqProperties
    <2> HIDE DEF start
    <2>4. Len(start) = Len(before) /\ \A i \in 1..Len(before) : start[i] = before[i]
      BY <1>1, <2>1, <2>3
    <2>5. start = before
      BY <2>3, <2>4, SeqEqual
    <2>. QED BY <2>5 DEF start, all
  <1> HIDE DEF n, fresh
  <1>5. \A i \in 2..n : fresh[i - 1] < fresh[i]
    BY <1>2, <1>3
  <1>6. given \subseteq Cursor!Between(LogicalPosition, LogicalPosition')
    BY <1>2, <1>3 DEF Cursor!Between
  <1>7. Cursor!Between(LogicalPosition, LogicalPosition') \subseteq given \cup lost'
    BY <1>2, <1>3 DEF Cursor!Between
  <1> HIDE DEF given
  <1>. QED BY <1>2, <1>4, <1>5, <1>6, <1>7 DEF Cursor!Serve, n, fresh, given

LEMMA CopiedStep ==
  ASSUME ReaderInv, ReaderInv', Retained, NEW before \in Seq(Nat), NEW bytes \in Seq(Nat),
         Copied(bytes), Doing' = "reading", task'.got = before \o bytes
  PROVE  Cursor!Serve(before)
  <1> DEFINE n == Len(bytes)
             p == LogicalPosition
             q == LogicalPosition'
  <1>1. /\ p \in Nat /\ p <= inner /\ inner \in Nat
        /\ buf.len \in Nat /\ buf.pos \in Nat /\ n \in Nat /\ buf.pos + n <= buf.len
    <2>1. LogicalPosition \in Nat /\ LogicalPosition <= inner /\ Len(bytes) \in Nat
      BY Ahead
    <2>2. inner \in Nat /\ buf.len \in Nat /\ buf.pos \in Nat
      BY ReaderFacts
    <2>3. Len(bytes) <= buf.len - buf.pos
      BY DEF Copied
    <2>. QED BY <2>1, <2>2, <2>3
  <1>2. /\ \A i \in (buf.pos + 1)..buf.len :
             buf.vec[i] > p /\ buf.vec[i] <= inner /\ buf.vec[i] \in Nat
        /\ \A x \in (p + 1)..inner :
             x \in lost \/ \E i \in (buf.pos + 1)..buf.len : buf.vec[i] = x
    BY Ahead
  <1>3. /\ \A i \in 1..n : bytes[i] = buf.vec[buf.pos + i]
        /\ buf'.vec = buf.vec /\ buf'.len = buf.len /\ buf'.pos = buf.pos + n
        /\ inner' = inner /\ lost' = lost
    BY DEF Copied
  <1>4. q = IF buf.pos + n >= buf.len THEN inner ELSE buf.vec[buf.pos + n + 1] - 1
    BY <1>3 DEF LogicalPosition, Exhausted
  <1> HIDE DEF n, p, q
  <1>5. ASSUME NEW i \in 1..buf.len, NEW j \in 1..buf.len, i < j
        PROVE  buf.vec[i] < buf.vec[j]
    BY <1>5 DEF Retained, Sorted
  <1>6. ASSUME NEW i \in 1..n
        PROVE  buf.pos + i \in (buf.pos + 1)..buf.len /\ buf.pos + i \in 1..buf.len
    BY <1>1
  (* The client is then between what it got and the rest.                   *)
  <1>7. /\ q \in Nat /\ p <= q /\ q <= inner
        /\ \A i \in 1..n : buf.vec[buf.pos + i] <= q
        /\ \A i \in (buf.pos + n + 1)..buf.len : buf.vec[i] > q
    <2>1. CASE ~(buf.pos + n < buf.len)
      <3>1. q = inner
        BY <1>1, <1>4, <2>1
      <3>2. (buf.pos + n + 1)..buf.len = {}
        BY <1>1, <2>1
      <3>3. \A i \in 1..n : buf.vec[buf.pos + i] <= q
        BY <1>2, <1>6, <3>1
      <3>4. q \in Nat /\ p <= q /\ q <= inner
        BY <1>1, <3>1
      <3>. QED BY <3>2, <3>3, <3>4
    <2>2. CASE buf.pos + n < buf.len
      <3> DEFINE f == buf.pos + n + 1
      <3>1. f \in (buf.pos + 1)..buf.len /\ f \in 1..buf.len /\ f \in Nat
        BY <1>1, <2>2
      <3>2. q = buf.vec[f] - 1
        BY <1>1, <1>4, <2>2
      <3>3. ASSUME NEW i \in 1..n PROVE buf.pos + i < f
        BY <1>1
      <3>4. ASSUME NEW i \in f..buf.len PROVE i \in 1..buf.len /\ i \in (buf.pos + 1)..buf.len
        BY <1>1
      <3> HIDE DEF f
      <3>5. buf.vec[f] > p /\ buf.vec[f] <= inner /\ buf.vec[f] \in Nat
        BY <1>2, <3>1
      <3>6. q \in Nat /\ p <= q /\ q <= inner
        <4>1. \A v \in Nat : v > p /\ v <= inner => v - 1 \in Nat /\ p <= v - 1 /\ v - 1 <= inner
          BY <1>1
        <4>. QED BY <3>2, <3>5, <4>1
      <3>7. ASSUME NEW i \in 1..n PROVE buf.vec[buf.pos + i] <= q
        <4>1. buf.vec[buf.pos + i] < buf.vec[f] /\ buf.vec[buf.pos + i] \in Nat
          BY <1>2, <1>5, <1>6, <3>1, <3>3
        <4>. QED BY <3>2, <3>5, <4>1
      <3>8. ASSUME NEW i \in f..buf.len PROVE buf.vec[i] > q
        <4>1. i \in 1..buf.len /\ buf.vec[i] \in Nat
          BY <1>2, <3>4
        <4>2. i # f => buf.vec[f] < buf.vec[i]
          BY <1>5, <3>1, <4>1
        <4>. QED BY <3>2, <3>5, <4>1, <4>2
      <3>9. /\ \A i \in 1..n : buf.vec[buf.pos + i] <= q
            /\ \A i \in f..buf.len : buf.vec[i] > q
        BY <3>7, <3>8
      <3>. QED BY <3>6, <3>9 DEF f
    <2>. QED BY <2>1, <2>2, Zenon
  <1>8. ASSUME NEW i \in 2..n PROVE bytes[i - 1] < bytes[i]
    <2>1. i - 1 \in 1..n /\ i \in 1..n /\ buf.pos + (i - 1) < buf.pos + i
      BY <1>1
    <2>. QED BY <1>3, <1>5, <1>6, <2>1
  <1>9. ASSUME NEW i \in 1..n PROVE bytes[i] \in (p + 1)..q
    <2>1. buf.vec[buf.pos + i] > p /\ buf.vec[buf.pos + i] \in Nat
      BY <1>2, <1>6
    <2>2. buf.vec[buf.pos + i] <= q /\ bytes[i] = buf.vec[buf.pos + i]
      BY <1>3, <1>7
    <2>3. p \in Nat /\ q \in Nat
      BY <1>1, <1>7
    <2>4. \A v \in Nat : v > p /\ v <= q => v \in (p + 1)..q
      BY <2>3
    <2>. QED BY <2>1, <2>2, <2>4
  <1>10. ASSUME NEW x \in (p + 1)..q, x \notin lost
         PROVE  \E i \in 1..n : bytes[i] = x
    <2>1. x \in (p + 1)..inner /\ x <= q /\ x \in Nat
      BY <1>1, <1>7
    <2>2. PICK j \in (buf.pos + 1)..buf.len : buf.vec[j] = x
      BY <1>2, <1>10, <2>1
    <2>3. ~(j \in (buf.pos + n + 1)..buf.len)
      BY <1>7, <2>1, <2>2
    <2>4. j - buf.pos \in 1..n /\ buf.pos + (j - buf.pos) = j
      <3>1. j \in Int /\ buf.pos < j /\ j <= buf.len /\ ~(buf.pos + n + 1 <= j)
        BY <1>1, <2>3
      <3>. QED BY <1>1, <3>1
    <2>. QED BY <1>3, <2>2, <2>4
  <1>. QED BY <1>3, <1>7, <1>8, <1>9, <1>10, ServeStep DEF n, p, q

(* What is drained from the buffer and from the source. *)
LEMMA DrainedBytes ==
  ASSUME ReaderInv, ReaderInv', Retained, NEW bytes \in Seq(Nat), NEW n, Drained(bytes, n)
  PROVE  /\ LogicalPosition <= LogicalPosition'
         /\ \A i \in 2..Len(bytes) : bytes[i - 1] < bytes[i]
         /\ \A i \in 1..Len(bytes) : bytes[i] \in (LogicalPosition + 1)..LogicalPosition'
         /\ \A x \in (LogicalPosition + 1)..LogicalPosition' :
              x \in lost \/ \E i \in 1..Len(bytes) : bytes[i] = x
  <1> DEFINE m == buf.len - buf.pos
             p == LogicalPosition
  <1>1. /\ p \in Nat /\ p <= inner /\ inner \in Nat /\ n \in Nat
        /\ buf.len \in Nat /\ buf.pos \in Nat /\ m \in Nat /\ buf.pos + m = buf.len
    <2>1. n \in Nat /\ LogicalPosition \in Nat /\ LogicalPosition <= inner
      BY Ahead DEF Drained
    <2>2. inner \in Nat /\ buf.len \in Nat /\ buf.pos \in Nat /\ buf.pos <= buf.len
      BY ReaderFacts
    <2>. QED BY <2>1, <2>2
  <1>2. /\ \A i \in (buf.pos + 1)..buf.len :
             buf.vec[i] > p /\ buf.vec[i] <= inner /\ buf.vec[i] \in Nat
        /\ \A x \in (p + 1)..inner :
             x \in lost \/ \E i \in (buf.pos + 1)..buf.len : buf.vec[i] = x
    BY Ahead
  <1>3. /\ Len(bytes) = m + n
        /\ \A i \in 1..m : bytes[i] = buf.vec[buf.pos + i]
        /\ \A i \in 1..n : bytes[m + i] = inner + i
        /\ LogicalPosition' = inner + n
    BY EmptiedPosition DEF Drained
  <1> HIDE DEF p, m
  <1>4. ASSUME NEW i \in 1..buf.len, NEW j \in 1..buf.len, i < j
        PROVE  buf.vec[i] < buf.vec[j]
    BY <1>4 DEF Retained, Sorted
  <1>5. ASSUME NEW i \in 1..m
        PROVE  /\ buf.pos + i \in (buf.pos + 1)..buf.len /\ buf.pos + i \in 1..buf.len
               /\ bytes[i] > p /\ bytes[i] <= inner /\ bytes[i] \in Nat
    <2>1. buf.pos + i \in (buf.pos + 1)..buf.len /\ buf.pos + i \in 1..buf.len
      BY <1>1
    <2>. QED BY <1>2, <1>3, <2>1
  <1>6. ASSUME NEW i \in 1..(m + n), i > m
        PROVE  i - m \in 1..n /\ bytes[i] = inner + (i - m)
    <2>1. i - m \in 1..n /\ m + (i - m) = i
      BY <1>1, <1>6
    <2>. QED BY <1>3, <2>1
  <1>7. ASSUME NEW i \in 2..(m + n) PROVE bytes[i - 1] < bytes[i]
    <2>1. CASE i <= m
      <3>1. i - 1 \in 1..m /\ i \in 1..m /\ buf.pos + (i - 1) < buf.pos + i
        BY <1>1, <2>1
      <3>. QED BY <1>3, <1>4, <1>5, <3>1
    <2>2. CASE i - 1 = m
      <3>1. i - 1 \in 1..m /\ i \in 1..(m + n) /\ i > m /\ i - m = 1
        BY <1>1, <2>2
      <3>2. bytes[i - 1] <= inner /\ bytes[i - 1] \in Nat /\ bytes[i] = inner + (i - m)
        BY <1>5, <1>6, <3>1
      <3>. QED BY <1>1, <3>1, <3>2
    <2>3. CASE i - 1 > m
      <3>1. i - 1 \in 1..(m + n) /\ i \in 1..(m + n) /\ i > m
        BY <1>1, <2>3
      <3>2. bytes[i - 1] = inner + ((i - 1) - m) /\ bytes[i] = inner + (i - m)
        BY <1>6, <2>3, <3>1
      <3>. QED BY <1>1, <3>2
    <2>. QED BY <1>1, <2>1, <2>2, <2>3
  <1>8. ASSUME NEW i \in 1..(m + n) PROVE bytes[i] \in (p + 1)..(inner + n)
    <2>1. CASE i <= m
      <3>1. i \in 1..m
        BY <1>1, <2>1
      <3>2. bytes[i] > p /\ bytes[i] <= inner /\ bytes[i] \in Nat
        BY <1>5, <3>1
      <3>. QED BY <1>1, <3>2
    <2>2. CASE i > m
      <3>1. i - m \in 1..n /\ bytes[i] = inner + (i - m)
        BY <1>6, <2>2
      <3>. QED BY <1>1, <3>1
    <2>. QED BY <1>1, <2>1, <2>2
  <1>9. ASSUME NEW x \in (p + 1)..(inner + n), x \notin lost
        PROVE  \E i \in 1..(m + n) : bytes[i] = x
    <2>1. CASE x <= inner
      <3>1. x \in (p + 1)..inner
        BY <1>1, <2>1
      <3>2. PICK j \in (buf.pos + 1)..buf.len : buf.vec[j] = x
        BY <1>2, <1>9, <3>1
      <3>3. j - buf.pos \in 1..m /\ j - buf.pos \in 1..(m + n) /\ buf.pos + (j - buf.pos) = j
        <4>1. j \in Int /\ buf.pos < j /\ j <= buf.pos + m
          BY <1>1
        <4>. QED BY <1>1, <4>1
      <3>. QED BY <1>3, <3>2, <3>3
    <2>2. CASE x > inner
      <3>1. x - inner \in 1..n /\ m + (x - inner) \in 1..(m + n) /\ inner + (x - inner) = x
        BY <1>1, <2>2
      <3>. QED BY <1>3, <3>1
    <2>. QED BY <1>1, <2>1, <2>2
  <1>10. p <= inner + n
    BY <1>1
  <1>. QED BY <1>3, <1>7, <1>8, <1>9, <1>10 DEF p

LEMMA ReadingStep ==
  ASSUME ReaderInv, ReaderInv', Retained, Reading
  PROVE  (Cursor!Serve(<<>>) \/ Cursor!Serve(task.got)) /\ lost \subseteq lost'
  <1>1. task.got \in Seq(Nat) /\ <<>> \in Seq(Nat)
    BY ReaderFacts DEF TaskType
  <1>2. ASSUME NEW before \in Seq(Nat), Serves(before)
        PROVE  Cursor!Serve(before) /\ lost \subseteq lost'
    <2>1. PICK bytes \in Seq(Nat) :
            /\ task'.got = before \o bytes
            /\ Copied(bytes) \/ ((\E n : Drained(bytes, n)) /\ lost' = lost)
      BY <1>2 DEF Serves
    <2>2. Doing' = "reading"
      BY <1>2 DEF Serves
    <2>3. CASE Copied(bytes)
      <3>1. lost' = lost
        BY <2>3 DEF Copied
      <3>. QED BY <2>1, <2>2, <2>3, <3>1, CopiedStep
    <2>4. ASSUME NEW n, Drained(bytes, n), lost' = lost
          PROVE  Cursor!Serve(before) /\ lost \subseteq lost'
      BY <2>1, <2>2, <2>4, DrainedBytes, ServeStep
    <2>. QED BY <2>1, <2>3, <2>4
  <1>3. ASSUME Drops PROVE Cursor!Serve(<<>>) /\ lost \subseteq lost'
    <2>1. Doing' = "reading" /\ task'.got = <<>>
      BY <1>3 DEF Drops
    <2>0. PICK bytes \in Seq(Nat) : /\ \E n : Drained(bytes, n)
                                    /\ lost' = lost \cup {bytes[i] : i \in 1..Len(bytes)}
      BY <1>3 DEF Drops
    <2>2. PICK n : Drained(bytes, n)
      BY <2>0
    <2>3. /\ LogicalPosition <= LogicalPosition'
          /\ \A x \in (LogicalPosition + 1)..LogicalPosition' :
               x \in lost \/ \E i \in 1..Len(bytes) : bytes[i] = x
      BY <2>2, DrainedBytes
    <2>4. \A x \in (LogicalPosition + 1)..LogicalPosition' : x \in lost'
      BY <2>0, <2>3
    <2>5. Len(<<>>) = 0 /\ 1..0 = {} /\ 2..0 = {} /\ <<>> = <<>> \o <<>>
      BY <1>1, ConcatEmptySeq
    <2>6. Cursor!Serve(<<>>)
      BY <1>1, <2>1, <2>3, <2>4, <2>5, ServeStep
    <2>. QED BY <2>0, <2>6
  <1>. QED BY <1>1, <1>2, <1>3 DEF Reading

(***************************************************************************)
(* The reader implements the cursor: for every source, setting and client, *)
(* reads serve the bytes of the source from the client's position on, in   *)
(* order, once each, and nothing but a skip, a seek or a failure of an     *)
(* all-or-nothing call leaves any out.                                     *)
(***************************************************************************)
THEOREM SequentialStreamHolds == Spec => SequentialStream
  <1>1. Init => Cursor!Init
    <2> SUFFICES ASSUME Init PROVE Cursor!Init
      OBVIOUS
    <2>1. buf.len = 0 /\ inner = 0 /\ lost = {} /\ task = Ended(Task("other", 0), "ok")
      BY InitHolds DEF Init
    <2>2. Task("other", 0) \in TaskType /\ Task("other", 0).op = "other" /\ Task("other", 0).got = <<>>
      BY TaskFields
    <2>3. task.op = "other" /\ task.got = <<>>
      BY <2>1, <2>2, EndedFields
    <2>4. Doing = "holding"
      BY <2>3 DEF Doing, Reads
    <2>5. WellFormed(buf)
      BY InitHolds DEF ReaderInv, FillInvariant
    <2>6. LogicalPosition = 0
      <3>1. buf.pos \in Nat
        BY <2>5, Fields
      <3>2. Exhausted
        BY <2>1, <3>1 DEF Exhausted
      <3>. QED BY <2>1, <3>2 DEF LogicalPosition
    <2>. QED BY <2>1, <2>3, <2>4, <2>6 DEF Cursor!Init
  <1>2. ReaderInv /\ ReaderInv' /\ Verdicts /\ Retained /\ [Next]_vars
          => [Cursor!Next]_(Cursor!vars)
    <2> SUFFICES ASSUME ReaderInv, ReaderInv', Verdicts, Retained, [Next]_vars
                 PROVE  [Cursor!Next]_(Cursor!vars)
      OBVIOUS
    <2>1. Hides \/ Holds \/ Skips \/ Jumps \/ Reading
      BY NextKind DEF Verdicts
    <2>. QED BY <2>1, HidesStep, HoldsStep, SkipsStep, JumpsStep, ReadingStep DEF Cursor!Next
  <1>. QED BY <1>1, <1>2, ReaderInvHolds, VerdictsHold, RetainedHolds, PTL
           DEF Spec, SequentialStream, Cursor!Spec

-----------------------------------------------------------------------------
(* Where the seeks arrive.  Without lost bytes, the client is behind the    *)
(* source by what is unconsumed.                                           *)
LEMMA ClientBehind ==
  ASSUME ReaderInv, Retained, lost = {}
  PROVE  LogicalPosition = inner - Behind /\ LogicalPosition \in Nat
  BY Ahead DEF Behind

LEMMA MovedOutcome ==
  ASSUME ReaderInv, NEW op \in {"seek", "seek_relative"}, NEW b, NEW p, NEW result \in {"ok", "error"},
         Moved(op, b, p, result)
  PROVE  buf' = b /\ inner' = p /\ task'.result = result
  <1>1. buf' = b /\ inner' = p /\ task' = Ended(Task(op, 0), result)
    BY DEF Moved, Does
  <1>2. Task(op, 0) \in TaskType
    BY TaskFields DEF Moves
  <1>. QED BY <1>1, <1>2, EndedFields

(* The buffer was given up, and the source is at p; or nothing changed.    *)
LEMMA MovedAway ==
  ASSUME ReaderInv, ReaderInv', NEW op \in {"seek", "seek_relative"}, NEW p,
         NEW result \in {"ok", "error"}, Moved(op, Clear(buf), p, result)
  PROVE  LogicalPosition' = p /\ task'.result = result
  <1>1. buf' = Clear(buf) /\ inner' = p /\ task'.result = result
    BY MovedOutcome
  <1>. QED BY <1>1, EmptyParts, EmptiedPosition

LEMMA MovedNowhere ==
  ASSUME ReaderInv, NEW op \in {"seek", "seek_relative"}, Moved(op, buf, inner, "error")
  PROVE  LogicalPosition' = LogicalPosition /\ task'.result = "error"
  <1>1. buf' = buf /\ inner' = inner /\ task'.result = "error"
    BY MovedOutcome
  <1>. QED BY <1>1 DEF LogicalPosition, Exhausted

(* seek_relative within the buffer. *)
LEMMA MovedWithin ==
  ASSUME ReaderInv, Retained, lost = {}, buf'.vec = buf.vec, buf'.len = buf.len, inner' = inner,
         NEW offset \in Int, buf'.pos = buf.pos + offset, buf'.pos \in Nat, buf'.pos <= buf.len
  PROVE  LogicalPosition' = LogicalPosition + offset
  <1>1. inner \in Nat /\ buf.len \in Nat /\ buf.pos \in Nat
    BY ReaderFacts
  <1>2. LogicalPosition = inner - (buf.len - buf.pos)
    BY Ahead
  <1>3. CASE Exhausted'
    <2>1. LogicalPosition' = inner /\ buf'.pos = buf.len
      BY <1>1, <1>3 DEF LogicalPosition, Exhausted
    <2>. QED BY <1>1, <1>2, <2>1
  <1>4. CASE ~Exhausted'
    <2>1. buf'.pos + 1 \in 1..buf.len
      BY <1>1, <1>4 DEF Exhausted
    <2>2. buf.vec[buf'.pos + 1] = inner - buf.len + (buf'.pos + 1)
      BY <2>1 DEF Retained, Contiguous
    <2>3. LogicalPosition' = buf.vec[buf'.pos + 1] - 1
      BY <1>4 DEF LogicalPosition
    <2>4. LogicalPosition' = (inner - buf.len + (buf'.pos + 1)) - 1
      BY <2>2, <2>3, Zenon
    <2>. QED BY <1>1, <1>2, <2>4
  <1>. QED BY <1>3, <1>4

LEMMA CurrentLands ==
  ASSUME ReaderInv, ReaderInv', Retained, lost = {}, NEW op \in {"seek", "seek_relative"},
         NEW offset \in Int, SeekCurrent(op, offset)
  PROVE  LogicalPosition' = IF task'.result = "ok" THEN LogicalPosition + offset
                                                   ELSE LogicalPosition
  <1>1. /\ LogicalPosition = inner - Behind /\ LogicalPosition \in Nat
        /\ inner \in Nat /\ Behind \in Int
    BY ClientBehind, ReaderFacts DEF Behind
  <1>2. inner + (offset - Behind) = LogicalPosition + offset
    BY <1>1
  <1>3. CASE SeekOnce(op, offset)
    <2>1. \/ Moved(op, Clear(buf), LogicalPosition + offset, "ok")
          \/ Moved(op, buf, inner, "error")
      BY <1>2, <1>3 DEF SeekOnce
    <2>. QED BY <2>1, MovedAway, MovedNowhere
  <1>4. CASE SeekTwice(op, offset)
    <2>1. \/ Moved(op, buf, inner, "error")
          \/ Moved(op, Clear(buf), LogicalPosition + offset, "ok")
          \/ Moved(op, Clear(buf), LogicalPosition, "error")
      BY <1>1, <1>4 DEF SeekTwice
    <2>. QED BY <2>1, MovedAway, MovedNowhere
  <1>5. CASE SeekHalfway(op, offset)
    <2>1. Moved(op, Clear(buf), LogicalPosition, "error")
      BY <1>1, <1>5 DEF SeekHalfway
    <2>. QED BY <2>1, MovedAway
  <1>. QED BY <1>3, <1>4, <1>5 DEF SeekCurrent

LEMMA RelativeLands ==
  ASSUME ReaderInv, ReaderInv', Retained, lost = {}, NEW offset \in Int, SeekRelative(offset)
  PROVE  LogicalPosition' = IF task'.result = "ok" THEN LogicalPosition + offset
                                                   ELSE LogicalPosition
  <1>1. inner \in Nat /\ buf.len \in Nat /\ buf.pos \in Nat /\ buf.pos <= buf.len
    BY ReaderFacts
  <1>2. CASE 0 <= offset /\ offset <= Behind
    <2>1. offset \in Nat /\ offset <= buf.len - buf.pos /\ buf.pos + offset <= buf.len
      BY <1>1, <1>2 DEF Behind
    <2>2. buf.pos + offset <= USIZE_MAX
      BY <2>1, HeldFits
    <2>3. Moved("seek_relative", Consume(buf, offset), inner, "ok")
      BY <1>2 DEF SeekRelative
    <2>4. buf' = Consume(buf, offset) /\ inner' = inner /\ task'.result = "ok"
      BY <2>3, MovedOutcome
    <2>5. /\ buf'.vec = buf.vec /\ buf'.len = buf.len
          /\ buf'.pos = Smaller(buf.pos + offset, buf.len)
      BY <2>1, <2>2, <2>4, ConsumeSuffix
    <2>6. buf'.pos = buf.pos + offset /\ buf'.pos \in Nat /\ buf'.pos <= buf.len
      BY <1>1, <2>1, <2>5 DEF Smaller
    <2>. QED BY <2>4, <2>5, <2>6, MovedWithin
  <1>3. CASE ~(0 <= offset /\ offset <= Behind) /\ offset < 0 /\ -offset <= buf.pos
    <2>1. Moved("seek_relative", Unconsume(buf, -offset), inner, "ok") /\ -offset \in Nat
      BY <1>3 DEF SeekRelative
    <2>2. buf' = Unconsume(buf, -offset) /\ inner' = inner /\ task'.result = "ok"
      BY <2>1, MovedOutcome
    <2>3. buf'.vec = buf.vec /\ buf'.len = buf.len /\ buf'.pos = buf.pos - (-offset)
      BY <1>3, <2>1, <2>2, UnconsumeSuffix
    <2>4. buf'.pos = buf.pos + offset /\ buf'.pos \in Nat /\ buf'.pos <= buf.len
      BY <1>1, <1>3, <2>3
    <2>. QED BY <2>2, <2>3, <2>4, MovedWithin
  <1>4. CASE ~(0 <= offset /\ offset <= Behind) /\ ~(offset < 0 /\ -offset <= buf.pos)
    <2>1. SeekCurrent("seek_relative", offset)
      BY <1>4 DEF SeekRelative
    <2>. QED BY <2>1, CurrentLands
  <1>. QED BY <1>2, <1>3, <1>4

(***************************************************************************)
(* A relative seek that is done arrives offset bytes from where the client *)
(* was, whether it moves in the buffer, takes one seek of the source or    *)
(* two; one that fails leaves the client there, even between the two.      *)
(***************************************************************************)
THEOREM SeeksLandHolds == Spec => SeeksLand
  <1>1. ReaderInv /\ ReaderInv' /\ Retained =>
          \A offset \in Offsets :
            lost = {} /\ (SeekCurrent("seek", offset) \/ SeekRelative(offset)) =>
              LogicalPosition' = IF task'.result = "ok" THEN LogicalPosition + offset
                                                        ELSE LogicalPosition
    <2> SUFFICES ASSUME ReaderInv, ReaderInv', Retained, NEW offset \in Offsets, lost = {},
                        SeekCurrent("seek", offset) \/ SeekRelative(offset)
                 PROVE  LogicalPosition' = IF task'.result = "ok" THEN LogicalPosition + offset
                                                                  ELSE LogicalPosition
      OBVIOUS
    <2>1. offset \in Int
      BY ReaderAssumption
    <2>. QED BY <2>1, CurrentLands, RelativeLands
  <1>. QED BY <1>1, ReaderInvHolds, RetainedHolds, PTL DEF SeeksLand

(***************************************************************************)
(* stream_position reports where the client is, whatever was read, sought, *)
(* shrunk or taken before, as long as no byte has gone missing: swallowed  *)
(* by a failed fill_exact or read_to_string, or read by the client past    *)
(* the reader.                                                             *)
(***************************************************************************)
THEOREM PositionIsLogicalHolds == Spec => [](lost = {} => StreamPositionIsLogical)
  <1>1. ReaderInv /\ Retained => (lost = {} => StreamPositionIsLogical)
    BY ClientBehind DEF StreamPositionIsLogical, StreamPosition
  <1>. QED BY <1>1, ReaderInvHolds, RetainedHolds, PTL

-----------------------------------------------------------------------------
(***************************************************************************)
(* A reader of a client that loses nothing: it neither reads the source    *)
(* past the reader nor calls what can fail after it has consumed.  Then    *)
(* the retained bytes are the last ones that the source gave, and the      *)
(* client is behind the source by what it has not consumed.                *)
(***************************************************************************)
Served == ReaderInv /\ Verdicts /\ Retained /\ lost = {} /\ inner <= StreamLen

LEMMA ServedFacts ==
  ASSUME Served
  PROVE  /\ ReaderInv /\ Verdicts /\ Retained /\ lost = {}
         /\ inner \in Nat /\ inner <= StreamLen /\ StreamLen \in Nat
         /\ buf.len \in Nat /\ buf.pos \in Nat /\ buf.pos <= buf.len
         /\ Remaining \in Nat /\ inner + Remaining = StreamLen
         /\ buf.len <= maxCapacity /\ maxCapacity \in Nat
         /\ \A i \in 1..buf.len : buf.vec[i] = inner - buf.len + i
         /\ StreamPosition = inner - (buf.len - buf.pos)
  <1>1. /\ ReaderInv /\ Verdicts /\ Retained /\ lost = {} /\ inner <= StreamLen
        /\ StreamLen \in Nat
    BY SourceAssumption DEF Served
  <1>2. /\ inner \in Nat /\ buf.len \in Nat /\ buf.pos \in Nat /\ buf.pos <= buf.len
        /\ buf.len <= buf.cap /\ buf.cap \in Nat /\ maxCapacity \in Nat /\ buf.cap <= maxCapacity
    BY <1>1, ReaderFacts DEF ReaderInv
  <1>3. \A i \in 1..buf.len : buf.vec[i] = inner - buf.len + i
    BY <1>1 DEF Retained, Contiguous
  <1>4. Remaining \in Nat /\ inner + Remaining = StreamLen
    BY <1>1, <1>2 DEF Remaining
  <1>5. buf.len <= maxCapacity
    BY <1>2
  <1>6. StreamPosition = inner - (buf.len - buf.pos)
    BY DEF StreamPosition, Behind
  <1>. QED BY <1>1, <1>2, <1>3, <1>4, <1>5, <1>6

(* A method that keeps a suffix of what is retained, and reads nothing. *)
LEMMA StillServed ==
  ASSUME Served, ReaderInv', Verdicts', Still(buf') \/ (\E k : Suffix(buf', k)),
         inner' = inner, lost' = lost
  PROVE  Served'
  <1>1. Kept
    BY StillKept DEF Served
  <1>2. Retained'
    BY <1>1, KeptRetained DEF Served
  <1>. QED BY <1>2 DEF Served

(* The answers of a call that has just been made. *)
LEMMA StartVerdict ==
  ASSUME call'.result = "none",
         \/ task'.pc = "idle" /\ task'.op = "other"
         \/ task'.pc = "idle" /\ task'.op = "consume" /\ Idle'
         \/ task'.pc = "loop" /\ task'.op \in Reads /\ task'.result = "none" /\ Idle'
  PROVE  Verdicts'
  <1>1. Waiting' /\ EofMeansEndOfStream' /\ FillToEndFills' /\ ShortReadIsEnd'
    BY DEF Waiting, EofMeansEndOfStream, FillToEndFills, ShortReadIsEnd
  <1>. QED BY <1>1 DEF Verdicts

LEMMA ManagesServed ==
  ASSUME Served, NEW b, Sized(b), NEW op \in {"other", "consume"}, Manages(op, b),
         Still(b) \/ (\E k : Suffix(b, k))
  PROVE  /\ Served' /\ Quiet' /\ buf' = b /\ inner' = inner /\ maxCapacity' = maxCapacity
  <1>1. op \in Reads \cup Moves \cup {"other"}
    BY DEF Moves
  <1>2. /\ Does(b, inner, Ended(Task(op, 0), "ok")) /\ lost' = lost
        /\ buf' = b /\ inner' = inner /\ maxCapacity' = maxCapacity /\ call' = NoCall
        /\ task' = Ended(Task(op, 0), "ok")
    BY DEF Manages, Does
  <1>3. ReaderInv'
    BY <1>1, <1>2, Here, MovedHolds DEF Served
  <1>4. task'.pc = "idle" /\ task'.op = op
    <2>1. Task(op, 0) \in TaskType /\ Task(op, 0).op = op
      BY <1>1, TaskFields
    <2>. QED BY <1>2, <2>1, EndedFields
  <1>5. call'.result = "none" /\ Idle'
    BY <1>2, NoCallFields DEF Idle
  <1>6. Verdicts'
    BY <1>4, <1>5, StartVerdict
  <1>7. Served'
    BY <1>2, <1>3, <1>6, StillServed
  <1>. QED BY <1>2, <1>4, <1>5, <1>7 DEF Quiet

LEMMA ConsumeServed ==
  ASSUME Served, NEW n \in Nat, ConsumeCall(n)
  PROVE  /\ Served' /\ Quiet' /\ inner' = inner /\ maxCapacity' = maxCapacity
         /\ buf'.vec = buf.vec /\ buf'.len = buf.len
         /\ n <= buf.len - buf.pos => buf'.pos = buf.pos + n
  <1>1. ReaderInv /\ buf.pos + n <= USIZE_MAX /\ Manages("consume", Consume(buf, n))
    BY DEF Served, ConsumeCall
  <1>2. Sized(Consume(buf, n))
    BY <1>1, SteppedSized
  <1> DEFINE b == Consume(buf, n)
  <1>3. /\ Suffix(b, 0) /\ b.vec = buf.vec /\ b.len = buf.len
        /\ b.pos = Smaller(buf.pos + n, buf.len)
    BY <1>1, ConsumeSuffix
  <1> HIDE DEF b
  <1>4. Manages("consume", b) /\ Sized(b)
    BY <1>1, <1>2 DEF b
  <1>5. /\ Served' /\ Quiet' /\ buf' = b /\ inner' = inner /\ maxCapacity' = maxCapacity
    BY <1>3, <1>4, ManagesServed
  <1>6. n <= buf.len - buf.pos => Smaller(buf.pos + n, buf.len) = buf.pos + n
    BY ServedFacts DEF Smaller
  <1>. QED BY <1>3, <1>5, <1>6

(* The consumed bytes go, and the client stays where it is. *)
LEMMA PartServed ==
  ASSUME Served, NEW b, b.len = buf.len - buf.pos, b.pos = 0,
         Sized(b), Still(b), Manages("other", b)
  PROVE  /\ Served' /\ Quiet' /\ inner' = inner /\ maxCapacity' = maxCapacity
         /\ buf'.pos = 0 /\ buf'.len = buf.len - buf.pos
  BY ManagesServed

LEMMA CompactServed ==
  ASSUME Served, CompactCall
  PROVE  /\ Served' /\ Quiet' /\ inner' = inner /\ maxCapacity' = maxCapacity
         /\ buf'.pos = 0 /\ buf'.len = buf.len - buf.pos
  <1>1. ReaderInv /\ WellFormed(buf) /\ buf \in BufferType
    BY ReaderFacts DEF Served, WellFormed
  <1>2. Compact(buf).len = buf.len - buf.pos
    BY <1>1, CompactWellFormed
  <1>3. Compact(buf).pos = 0
    BY <1>1 DEF Compact, BufferType
  <1>4. Sized(Compact(buf)) /\ Still(Compact(buf))
    BY <1>1, PartsSized, PartsStill
  <1>. QED BY <1>2, <1>3, <1>4, PartServed DEF CompactCall

LEMMA TakeConsumedServed ==
  ASSUME Served, TakeConsumedCall
  PROVE  /\ Served' /\ Quiet' /\ inner' = inner /\ maxCapacity' = maxCapacity
         /\ buf'.pos = 0 /\ buf'.len = buf.len - buf.pos
  <1>1. ReaderInv /\ WellFormed(buf)
    BY ReaderFacts DEF Served
  <1>2. KeptPart(buf).len = buf.len - buf.pos
    BY <1>1, KeptWellFormed
  <1>3. KeptPart(buf).pos = 0
    BY <1>1, KeptFront
  <1>4. Sized(KeptPart(buf)) /\ Still(KeptPart(buf))
    BY <1>1, PartsSized, PartsStill
  <1>. QED BY <1>2, <1>3, <1>4, PartServed DEF TakeConsumedCall

(* The steps inside a call. *)
LEMMA WorkServed ==
  ASSUME Served, Work
  PROVE  Served' /\ maxCapacity' = maxCapacity /\ ~Quiet /\ (Hides \/ Serves(task.got))
  <1>1. /\ ReaderInv /\ Verdicts /\ Retained /\ lost = {} /\ Waiting
        /\ inner \in Nat /\ Remaining \in Nat /\ inner + Remaining = StreamLen /\ StreamLen \in Nat
    BY ServedFacts DEF Verdicts
  <1>2. ReaderInv' /\ Verdicts'
    BY <1>1, WorkHolds, WorkVerdict
  <1>3. Hides \/ Serves(task.got)
    BY <1>1, WorkKind
  <1>4. Retained'
    BY <1>1, <1>3, KindRetains DEF Reading
  <1>5. lost' = lost /\ (\E n \in Nat : n <= Remaining /\ inner' = inner + n)
    <2>1. CASE Hides
      <3>1. lost' = lost /\ (inner' = inner \/ Grew)
        BY <2>1 DEF Hides
      <3>2. Grew => \E n \in Nat : n <= Remaining /\ inner' = inner + n
        BY DEF Grew, Absorbed
      <3>3. inner' = inner => inner' = inner + 0 /\ 0 <= Remaining
        BY <1>1
      <3>. QED BY <3>1, <3>2, <3>3
    <2>2. CASE Serves(task.got)
      <3>1. PICK bytes \in Seq(Nat) : Copied(bytes) \/ ((\E n : Drained(bytes, n)) /\ lost' = lost)
        BY <2>2 DEF Serves
      <3>2. Copied(bytes) => lost' = lost /\ inner' = inner + 0 /\ 0 <= Remaining
        BY <1>1 DEF Copied
      <3>3. (\E n : Drained(bytes, n)) => \E n \in Nat : n <= Remaining /\ inner' = inner + n
        BY DEF Drained
      <3>. QED BY <3>1, <3>2, <3>3
    <2>. QED BY <1>3, <2>1, <2>2
  <1>6. inner' <= StreamLen /\ lost' = {}
    BY <1>1, <1>5
  <1>7. maxCapacity' = maxCapacity
    BY DEF Work, ReadDirect, ReadDirectFailed, Refill, RefillFailed, CopyOut
  <1>8. ~Quiet
    <2>1. FillStep => ~Idle
      BY <1>1, ReaderFacts, FillStepCall
    <2>2. Work => FillStep \/ task.pc # "idle"
      BY DEF Work, ReadDirect, ReadDirectFailed, Bypasses, Refill, RefillFailed, CopyOut
    <2>. QED BY <2>1, <2>2 DEF Quiet
  <1>. QED BY <1>2, <1>3, <1>4, <1>6, <1>7, <1>8 DEF Served

(***************************************************************************)
(* What a fill answers to a client who called it by itself: that it found  *)
(* a delimiter, or that the amount has arrived, or that the buffer is full *)
(* at max_capacity.                                                        *)
(***************************************************************************)
Answered ==
  /\ call.result # "invalid"
  /\ call.op = "fill_until" /\ call.result = "complete" => FoundFrom(buf, 0)
  /\ call.op = "fill_until" /\ call.result = "capped" => buf.len = maxCapacity
  /\ call.op = "fill_amount" /\ call.result = "complete" => call.first + call.amt <= buf.len

LEMMA FillStepAnswered ==
  ASSUME ReaderInv, FillStep, maxCapacity' = maxCapacity
  PROVE  Answered'
  <1>1. /\ FillInvariant /\ WellFormed(buf) /\ inner \in Nat /\ call \in CallType /\ ~Idle
        /\ call.result = "none" /\ call'.op = call.op /\ call'.first = call.first
        /\ call'.amt = call.amt
        /\ buf.len \in Nat /\ buf.cap \in Nat /\ buf.len <= buf.cap /\ maxCapacity \in Nat
        /\ buf.cap <= maxCapacity
    BY ReaderFacts, FillStepCall DEF ReaderInv, Driven
  <1>2. CASE Finish
    <2>1. call' = Returned(call, "complete") /\ call'.result = "complete"
      BY <1>1, <1>2 DEF Finish, Returned, CallType
    <2>2. call.op = "fill_until" => FoundFrom(buf', 0)
      <3>1. SUFFICES ASSUME call.op = "fill_until" PROVE FoundFrom(buf', 0)
        OBVIOUS
      <3>2. PICK i \in (call.check + 1)..buf.len : buf.vec[i] \in Delimiters
        BY <1>2, <3>1 DEF Finish, MayStop, Open, FoundFrom
      <3>3. call.check \in Nat
        BY <1>1, CallFields
      <3>4. i \in 1..buf.len
        BY <1>1, <3>2, <3>3
      <3> DEFINE g == ShrinkTargeted(buf, call.start)
      <3>5. g.len = buf.len /\ \A k \in 1..buf.len : g.vec[k] = buf.vec[k]
        BY <1>1, ShrinkAfterFill
      <3>6. buf' = g
        BY <1>2, <3>1 DEF Finish
      <3> HIDE DEF g
      <3>7. i \in (0 + 1)..buf'.len /\ buf'.vec[i] = buf.vec[i]
        BY <1>1, <3>4, <3>5, <3>6
      <3>. QED BY <3>2, <3>7 DEF FoundFrom
    <2>3. call.op = "fill_amount" => call.first + call.amt <= buf'.len
      <3>1. SUFFICES ASSUME call.op = "fill_amount" PROVE call.first + call.amt <= buf.len
        BY <1>2 DEF Finish
      <3>2. call.total >= call.amt /\ buf.len = call.first + call.total
        BY <1>1, <1>2, <3>1 DEF Finish, MayStop, Open, FillInvariant, Running
      <3>3. call.total \in Nat /\ call.first \in Nat /\ call.amt \in Nat
        BY <1>1, CallFields
      <3>. QED BY <3>2, <3>3
    <2>. QED BY <1>1, <2>1, <2>2, <2>3 DEF Answered
  <1>3. CASE Abandoned \/ ReadFailed \/ ReadNothing
    <2>1. PICK r \in {"error", "eof"} : call' = Returned(call, r)
      BY <1>3 DEF Abandoned, ReadFailed, ReadNothing
    <2>2. call'.result \in {"error", "eof"}
      BY <1>1, <2>1 DEF Returned, CallType
    <2>. QED BY <2>2 DEF Answered
  <1>4. CASE Capped
    <2>1. /\ call' = Returned(call, CASE call.op = "fill" -> "complete"
                                      [] call.op \in {"fill_amount", "fill_to_end"} -> "panic"
                                      [] OTHER -> "capped")
          /\ IsCapped(buf, GrowthLimit) /\ buf' = buf
      BY <1>4 DEF Capped
    <2>2. call'.result = (CASE call.op = "fill" -> "complete"
                            [] call.op \in {"fill_amount", "fill_to_end"} -> "panic"
                            [] OTHER -> "capped")
      BY <1>1, <2>1 DEF Returned, CallType
    <2>3. GrowthLimit \in Nat /\ GrowthLimit # NoLimit
      BY <1>1, DrivenLimit, LimitType
    <2>4. buf.len = buf.cap /\ buf.cap >= CapUpLinear(GrowthLimit)
      BY <1>1, <2>1, <2>3, CappedFull DEF IsFull
    <2>5. call.op = "fill_until" => buf.len = maxCapacity
      <3>1. call.op = "fill_until" => GrowthLimit = maxCapacity
        BY <1>1 DEF ReaderInv, Driven, GrowthLimit
      <3>2. CapUpLinear(maxCapacity) = maxCapacity
        BY ReaderFacts, Aligned
      <3>. QED BY <1>1, <2>4, <3>1, <3>2
    <2>6. /\ call.op = "fill_until" => call'.result = "capped"
          /\ call.op = "fill_amount" => call'.result = "panic"
          /\ call'.result # "invalid"
      BY <2>2
    <2>. QED BY <1>1, <2>1, <2>5, <2>6 DEF Answered
  <1>5. CASE PrepareRead
    <2>1. \/ \E k : call' = [call EXCEPT !.pc = "read", !.check = k]
          \/ call' = Returned(call, "panic")
      BY <1>5 DEF PrepareRead
    <2>2. call'.result \in {"none", "panic"}
      BY <1>1, <2>1 DEF Returned, CallType
    <2>. QED BY <2>2 DEF Answered
  <1>6. CASE ReadInterrupted
    BY <1>1, <1>6 DEF ReadInterrupted, fillVars, Answered
  <1>7. ASSUME NEW n \in 1..StreamLen, ReadBytes(n)
        PROVE  Answered'
    <2> DEFINE c == [call EXCEPT !.total = call.total + n, !.pc = "check"]
    <2>1. c.result = "none"
      BY <1>1 DEF CallType
    <2>2. call' = IF call.op = "fill" THEN Returned(c, "complete") ELSE c
      BY <1>7 DEF ReadBytes
    <2>3. Returned(c, "complete").result = "complete"
      BY <1>1 DEF Returned, CallType
    <2> HIDE DEF c
    <2>4. call'.result = "none" \/ (call.op = "fill" /\ call'.result = "complete")
      BY <2>1, <2>2, <2>3
    <2>. QED BY <1>1, <2>4 DEF Answered
  <1>. QED BY <1>2, <1>3, <1>4, <1>5, <1>6, <1>7 DEF FillStep

(* A fill appends, and the client stays where it is. *)
LEMMA FillWork ==
  ASSUME Served, Work, task.pc = "idle"
  PROVE  /\ Served' /\ Answered' /\ ~Idle /\ maxCapacity' = maxCapacity /\ task'.pc = "idle"
         /\ call'.op = call.op /\ call'.first = call.first /\ call'.amt = call.amt
         /\ buf'.pos = buf.pos /\ buf.len <= buf'.len
         /\ inner' - buf'.len = inner - buf.len
  <1>1. Served' /\ maxCapacity' = maxCapacity /\ ReaderInv /\ ReaderInv'
    BY WorkServed DEF Served
  <1>2. FillStep /\ task' = task
    BY DEF Work, ReadDirect, ReadDirectFailed, Bypasses, Refill, RefillFailed, CopyOut
  <1>3. /\ ~Idle /\ call'.op = call.op /\ call'.first = call.first /\ call'.amt = call.amt
    BY <1>1, <1>2, ReaderFacts, FillStepCall
  <1>4. Answered'
    BY <1>1, <1>2, FillStepAnswered
  <1>5. /\ buf.len \in Nat /\ buf.cap \in Nat /\ buf.pos \in Nat /\ inner \in Nat
        /\ FillInvariant /\ WellFormed(buf) /\ Remaining \in Nat
    BY <1>1, ReaderFacts
  <1>6. CASE Finish \/ Abandoned \/ Capped \/ PrepareRead \/ ReadInterrupted \/ ReadFailed \/ ReadNothing
    <2>1. inner' = inner
      BY <1>6 DEF Finish, Abandoned, Capped, PrepareRead, ReadInterrupted, ReadFailed,
         ReadNothing, fillVars
    <2>2. \/ buf' = buf \/ buf' = ShrinkTargeted(buf, call.start)
          \/ buf' = GrownForRead(buf, GrowthLimit)
      BY <1>6 DEF Finish, Abandoned, Capped, PrepareRead, ReadInterrupted, ReadFailed,
         ReadNothing, fillVars
    <2>3. /\ ShrinkTargeted(buf, call.start).len = buf.len
          /\ ShrinkTargeted(buf, call.start).pos = buf.pos
      BY <1>3, <1>5, ShrinkAfterFill
    <2>4. /\ GrownForRead(buf, GrowthLimit).len = buf.len
          /\ GrownForRead(buf, GrowthLimit).pos = buf.pos
      BY <1>5, LimitType, GrownWellFormed
    <2>5. buf'.len = buf.len /\ buf'.pos = buf.pos
      BY <2>2, <2>3, <2>4
    <2>. QED BY <1>1, <1>2, <1>3, <1>4, <1>5, <2>1, <2>5
  <1>7. ASSUME NEW n \in 1..StreamLen, ReadBytes(n)
        PROVE  buf'.pos = buf.pos /\ buf.len <= buf'.len /\ inner' - buf'.len = inner - buf.len
    <2>1. n \in Nat /\ inner' = inner + n /\ buf' = Absorb(buf, n, inner)
      BY <1>7, SourceAssumption DEF ReadBytes
    <2>2. buf'.len = buf.len + n /\ buf'.pos = buf.pos
      BY <1>5, <1>7, <2>1, ReadFits, AbsorbWellFormed
    <2>. QED BY <1>5, <2>1, <2>2
  <1>. QED BY <1>1, <1>2, <1>3, <1>4, <1>6, <1>7 DEF FillStep

(* The calls of a fill. *)
LEMMA FillUntilServed ==
  ASSUME Served, Fills(FillUntil)
  PROVE  /\ Served' /\ Answered' /\ buf' = buf /\ inner' = inner /\ maxCapacity' = maxCapacity
         /\ task'.pc = "idle" /\ call'.op = "fill_until"
  <1>1. ReaderInv /\ maxCapacity # NoLimit
    BY ReaderFacts, NoLimitAssumption DEF Served
  <1>2. ReaderInv'
    BY <1>1, StartedLoop DEF FillUntil
  <1>3. /\ buf' = buf /\ inner' = inner /\ lost' = lost /\ maxCapacity' = maxCapacity
        /\ task' = Ended(Task("other", 0), "ok")
        /\ call' = Called(buf, "fill_until", 0, maxCapacity)
    BY DEF Fills, FillUntil, StartFill
  <1>4. call'.op = "fill_until" /\ call'.result = "none"
    BY <1>3 DEF Called
  <1>5. task'.pc = "idle" /\ task'.op = "other"
    <2>1. Task("other", 0) \in TaskType /\ Task("other", 0).op = "other"
      BY TaskFields
    <2>. QED BY <1>3, <2>1, EndedFields
  <1>6. Verdicts'
    BY <1>4, <1>5, StartVerdict
  <1>7. Still(buf')
    BY <1>1, <1>3, PartsStill
  <1>8. Served'
    BY <1>2, <1>3, <1>6, <1>7, StillServed
  <1>. QED BY <1>3, <1>4, <1>5, <1>8 DEF Answered

LEMMA FillAmountServed ==
  ASSUME Served, NEW amt \in Nat, buf.len + amt <= maxCapacity, Fills(FillAmount(amt))
  PROVE  /\ Served' /\ Answered' /\ inner' = inner /\ maxCapacity' = maxCapacity
         /\ buf'.len = buf.len /\ buf'.pos = buf.pos
         /\ task'.pc = "idle" /\ call'.op = "fill_amount"
         /\ call'.first = buf.len /\ call'.amt = amt
  <1>1. ReaderInv /\ ~ExceedsMax(amt)
    BY ServedFacts DEF ExceedsMax
  <1>2. Fills(StartFillAmount(amt))
    BY <1>1 DEF Fills, FillAmount, FillRefused
  <1>3. ReaderInv'
    BY <1>1, <1>2, AmountHolds
  <1> DEFINE g == GrowTargetedLinear(buf, buf.len + amt)
  <1>4. /\ g.len = buf.len /\ g.pos = buf.pos /\ \A i \in 1..buf.len : g.vec[i] = buf.vec[i]
        /\ ~TooMuch(amt)
    BY <1>1, AmountSized
  <1>5. /\ buf' = g /\ inner' = inner /\ lost' = lost /\ maxCapacity' = maxCapacity
        /\ task' = Ended(Task("other", 0), "ok")
        /\ call' = Called(buf, "fill_amount", amt, NoLimit)
    BY <1>2, <1>4 DEF Fills, StartFillAmount
  <1> HIDE DEF g
  <1>6. /\ call'.op = "fill_amount" /\ call'.result = "none" /\ call'.first = buf.len
        /\ call'.amt = amt
    BY <1>5 DEF Called
  <1>7. task'.pc = "idle" /\ task'.op = "other"
    <2>1. Task("other", 0) \in TaskType /\ Task("other", 0).op = "other"
      BY TaskFields
    <2>. QED BY <1>5, <2>1, EndedFields
  <1>8. Verdicts'
    BY <1>6, <1>7, StartVerdict
  <1>9. Still(buf')
    BY <1>1, <1>4, <1>5, SameSuffix
  <1>10. Served'
    BY <1>3, <1>5, <1>8, <1>9, StillServed
  <1>. QED BY <1>4, <1>5, <1>6, <1>7, <1>10 DEF Answered

-----------------------------------------------------------------------------
(* A single read, from the call until it returns. *)
OneRead == task.op = "read" /\ (task.pc # "idle" \/ task.result # "ok" => task.got = <<>>)

LEMMA ReadServed ==
  ASSUME Served, NEW n \in Nat, StartRead("read", n)
  PROVE  /\ Served' /\ OneRead' /\ buf' = buf /\ inner' = inner /\ maxCapacity' = maxCapacity
         /\ task'.got = <<>> /\ task'.want = n /\ task'.pc # "idle"
  <1>1. ReaderInv /\ Sized(buf) /\ inner \in 0..MAX_POSITION /\ Still(buf)
    BY PartsSized, PartsStill, Here DEF Served
  <1>2. /\ Does(buf, inner, Task("read", n)) /\ lost' = lost
        /\ buf' = buf /\ inner' = inner /\ maxCapacity' = maxCapacity /\ call' = NoCall
        /\ task' = Task("read", n)
    BY DEF StartRead, Does
  <1>3. /\ Task("read", n) \in TaskType /\ Task("read", n).pc = "loop"
        /\ Task("read", n).got = <<>> /\ Task("read", n).op = "read" /\ Task("read", n).want = n
    BY TaskFields DEF Reads
  <1>4. Task("read", n).result = "none"
    BY DEF Task
  <1>5. ReaderInv'
    BY <1>1, <1>2, <1>3, DoesHolds
  <1>6. call'.result = "none" /\ Idle'
    BY <1>2, NoCallFields DEF Idle
  <1>7. Verdicts'
    BY <1>2, <1>3, <1>4, <1>6, StartVerdict DEF Reads
  <1>8. Served'
    BY <1>1, <1>2, <1>5, <1>7, StillServed
  <1>. QED BY <1>2, <1>3, <1>8 DEF OneRead

LEMMA HidesPosition ==
  ASSUME Served, Served', Hides
  PROVE  StreamPosition' = StreamPosition
  <1>1. /\ inner \in Nat /\ buf.len \in Nat /\ buf.pos \in Nat /\ buf.pos <= buf.len
    BY ServedFacts
  <1>2. buf'.len \in Nat /\ buf'.pos \in Nat /\ buf'.pos <= buf'.len
    <2>1. WellFormed(buf')
      BY DEF Served, ReaderInv, FillInvariant
    <2>. QED BY <2>1, Fields
  <1>3. CASE Still(buf') /\ inner' = inner
    BY <1>1, <1>2, <1>3 DEF Still, Suffix, StreamPosition, Behind
  <1>4. CASE Grew
    BY <1>1, <1>4 DEF Grew, Absorbed, StreamPosition, Behind
  <1>5. CASE Exhausted /\ Emptied /\ inner' = inner
    BY <1>1, <1>2, <1>5 DEF Exhausted, Emptied, StreamPosition, Behind
  <1>. QED BY <1>3, <1>4, <1>5 DEF Hides

(* Sequences of consecutive positions. *)
LEMMA IsRun ==
  ASSUME NEW s \in Seq(Nat), NEW p \in Nat, \A i \in 1..Len(s) : s[i] = p + i
  PROVE  s = Run(p, Len(s))
  <1>1. /\ Run(p, Len(s)) \in Seq(Nat) /\ Len(Run(p, Len(s))) = Len(s)
    BY RunBytes
  <1>2. \A i \in 1..Len(s) : Run(p, Len(s))[i] = p + i
    BY DEF Run
  <1>. QED BY <1>1, <1>2, SeqEqual

LEMMA ServedPosition ==
  ASSUME Served
  PROVE  StreamPosition \in Nat /\ inner - buf.len \in Nat
  <1>1. /\ inner \in Nat /\ buf.len \in Nat /\ buf.pos \in Nat /\ buf.pos <= buf.len
        /\ StreamPosition = inner - (buf.len - buf.pos)
    BY ServedFacts
  <1>2. buf.len > 0 => inner - buf.len + 1 \in 1..inner
    <2>1. /\ \A i \in 1..buf.len : buf.vec[i] = inner - buf.len + i
          /\ \A i \in 1..buf.len : buf.vec[i] \in 1..inner
      BY ServedFacts DEF Served, Retained, Given
    <2>2. buf.len > 0 => 1 \in 1..buf.len
      BY <1>1
    <2>. QED BY <2>1, <2>2
  <1>. QED BY <1>1, <1>2

LEMMA ServesBytes ==
  ASSUME Served, Served', Serves(<<>>)
  PROVE  /\ StreamPosition' = StreamPosition + Len(task'.got)
         /\ task'.got \in Seq(Nat) /\ task'.got = Run(StreamPosition, Len(task'.got))
  <1>1. /\ inner \in Nat /\ buf.len \in Nat /\ buf.pos \in Nat /\ buf.pos <= buf.len
        /\ StreamPosition = inner - (buf.len - buf.pos)
    BY ServedFacts
  <1>2. \A i \in 1..buf.len : buf.vec[i] = inner - buf.len + i
    BY ServedFacts
  <1>3. buf'.len \in Nat /\ buf'.pos \in Nat /\ buf'.pos <= buf'.len
    <2>1. WellFormed(buf')
      BY DEF Served, ReaderInv, FillInvariant
    <2>. QED BY <2>1, Fields
  <1>4. PICK bytes \in Seq(Nat) : task'.got = <<>> \o bytes
                                  /\ (Copied(bytes) \/ \E n : Drained(bytes, n))
    BY DEF Serves
  <1>5. PICK m \in Nat : m = Len(bytes)
    BY <1>4
  <1>9. task'.got = bytes
    BY <1>4, ConcatEmptySeq
  <1>6. StreamPosition' = inner' - (buf'.len - buf'.pos)
    BY DEF StreamPosition, Behind
  <1>7. /\ StreamPosition' = StreamPosition + m
        /\ \A i \in 1..m : bytes[i] = StreamPosition + i
    <2>1. CASE Copied(bytes)
      <3>1. /\ m <= buf.len - buf.pos /\ buf'.len = buf.len
            /\ buf'.pos = buf.pos + m /\ inner' = inner
        BY <1>5, <2>1 DEF Copied
      <3>2. \A i \in 1..m : bytes[i] = buf.vec[buf.pos + i]
        BY <1>5, <2>1 DEF Copied
      <3>3. StreamPosition' = StreamPosition + m
        <4>1. inner' - (buf'.len - buf'.pos) = (inner - (buf.len - buf.pos)) + m
          BY <1>1, <3>1
        <4>. QED BY <1>1, <1>6, <4>1, Zenon
      <3>4. ASSUME NEW i \in 1..m PROVE bytes[i] = StreamPosition + i
        <4>1. buf.pos + i \in 1..buf.len
          BY <1>1, <3>1
        <4>2. inner - buf.len + (buf.pos + i) = StreamPosition + i
          BY <1>1
        <4>. QED BY <1>2, <3>2, <4>1, <4>2
      <3>. QED BY <3>3, <3>4
    <2>2. ASSUME NEW n, Drained(bytes, n)
          PROVE  /\ StreamPosition' = StreamPosition + m
                 /\ \A i \in 1..m : bytes[i] = StreamPosition + i
      <3>1. n \in Nat /\ m = buf.len - buf.pos + n /\ buf'.len = 0 /\ inner' = inner + n
        BY <1>5, <2>2 DEF Drained
      <3>2. /\ \A i \in 1..(buf.len - buf.pos) : bytes[i] = buf.vec[buf.pos + i]
            /\ \A i \in 1..n : bytes[buf.len - buf.pos + i] = inner + i
        BY <1>5, <2>2 DEF Drained
      <3>3. StreamPosition' = StreamPosition + m
        <4>1. inner' - (buf'.len - buf'.pos) = (inner - (buf.len - buf.pos)) + m
          <5>1. buf'.pos = 0 /\ buf'.len = 0
            BY ONLY <1>3, <3>1
          <5>2. /\ inner \in Nat /\ buf.len \in Nat /\ buf.pos \in Nat /\ n \in Nat
                /\ m = buf.len - buf.pos + n /\ inner' = inner + n
            BY ONLY <1>1, <3>1
          <5>. QED BY ONLY <5>1, <5>2
        <4>. QED BY <1>1, <1>6, <4>1, Zenon
      <3>4. ASSUME NEW i \in 1..m PROVE bytes[i] = StreamPosition + i
        <4>1. CASE i <= buf.len - buf.pos
          <5>1. i \in 1..(buf.len - buf.pos) /\ buf.pos + i \in 1..buf.len
            BY ONLY <1>1, <4>1, i \in 1..m, m \in Nat
          <5>2. inner - buf.len + (buf.pos + i) = StreamPosition + i
            BY <1>1, <4>1
          <5>. QED BY <1>2, <3>2, <5>1, <5>2
        <4>2. CASE ~(i <= buf.len - buf.pos)
          <5> DEFINE j == i - (buf.len - buf.pos)
          <5>1. /\ j \in 1..n /\ buf.len - buf.pos + j = i /\ inner + j = StreamPosition + i
            <6>1. i \in Nat /\ i <= m /\ ~(i <= buf.len - buf.pos)
              BY <4>2
            <6>2. /\ inner \in Nat /\ buf.len \in Nat /\ buf.pos \in Nat /\ n \in Nat
                  /\ m = buf.len - buf.pos + n
                  /\ StreamPosition = inner - (buf.len - buf.pos)
              BY ONLY <1>1, <3>1
            <6>3. j \in Nat /\ 1 <= j /\ j <= n
              BY ONLY <6>1, <6>2
            <6>4. buf.len - buf.pos + j = i /\ inner + j = StreamPosition + i
              BY ONLY <6>1, <6>2
            <6>. QED BY <6>3, <6>4
          <5> HIDE DEF j
          <5>. QED BY <3>2, <5>1
        <4>. QED BY <4>1, <4>2
      <3>. QED BY <3>3, <3>4
    <2>. QED BY <1>4, <2>1, <2>2
  <1>8. StreamPosition \in Nat
    BY ServedPosition
  <1>. QED BY <1>4, <1>5, <1>7, <1>8, <1>9, IsRun

(* What a read of the client knows after a step. *)
LEMMA ReadTask ==
  ASSUME ReaderInv, OneRead, task.pc # "idle", Work
  PROVE  /\ task'.op = "read" /\ task'.want = task.want
         /\ task'.pc # "idle" \/ task'.result # "ok" => task'.got = <<>>
  <1>1. task \in TaskType /\ task.op = "read" /\ task.got = <<>>
    BY ReaderFacts DEF OneRead
  <1>2. ASSUME NEW bytes, task' = Received(bytes)
        PROVE  /\ task'.op = "read" /\ task'.want = task.want
               /\ task'.pc = "idle" /\ task'.result = "ok"
    <2> DEFINE u == [task EXCEPT !.got = task.got \o bytes, !.pc = "loop"]
    <2>1. u.op = "read" /\ u.want = task.want
      BY <1>1 DEF TaskType
    <2>2. Received(bytes) = Ended(u, "ok")
      BY <2>1 DEF Received
    <2>3. /\ Ended(u, "ok").op = u.op /\ Ended(u, "ok").want = u.want
          /\ Ended(u, "ok").pc = "idle" /\ Ended(u, "ok").result = "ok"
      BY <1>1 DEF Ended, TaskType
    <2> HIDE DEF u
    <2>. QED BY <1>2, <2>1, <2>2, <2>3
  <1>3. ASSUME task' = task \/ task' = Ended(task, "error") \/ task' = [task EXCEPT !.pc = "filling"]
        PROVE  task'.op = "read" /\ task'.want = task.want /\ task'.got = <<>>
    BY <1>1, <1>3 DEF Ended, TaskType
  <1>. QED BY <1>2, <1>3 DEF Work, ReadDirect, ReadDirectFailed, Refill, RefillFailed, CopyOut

LEMMA ReadWork ==
  ASSUME Served, OneRead, task.pc # "idle", Work
  PROVE  /\ Served' /\ OneRead' /\ maxCapacity' = maxCapacity /\ task'.want = task.want
         /\ StreamPosition' = StreamPosition + Len(task'.got)
         /\ task'.got \in Seq(Nat) /\ task'.got = Run(StreamPosition, Len(task'.got))
  <1>1. Served' /\ maxCapacity' = maxCapacity /\ (Hides \/ Serves(task.got))
    BY WorkServed
  <1>2. ReaderInv /\ task.got = <<>> /\ StreamPosition \in Nat
    BY ServedPosition DEF OneRead, Served
  <1>3. OneRead' /\ task'.want = task.want
    BY <1>2, ReadTask DEF OneRead
  <1>4. CASE Hides
    <2>1. task'.got = <<>> /\ StreamPosition' = StreamPosition
      BY <1>1, <1>2, <1>4, HidesPosition DEF Hides
    <2>2. <<>> \in Seq(Nat) /\ Len(<<>>) = 0 /\ StreamPosition = StreamPosition + 0
      BY <1>2
    <2>3. \A i \in 1..Len(<<>>) : <<>>[i] = StreamPosition + i
      BY <2>2
    <2>4. <<>> = Run(StreamPosition, Len(<<>>))
      BY <1>2, <2>2, <2>3, IsRun
    <2>. QED BY <1>1, <1>3, <2>1, <2>2, <2>4
  <1>5. CASE Serves(task.got)
    BY <1>1, <1>2, <1>3, <1>5, ServesBytes
  <1>. QED BY <1>1, <1>4, <1>5
=============================================================================
