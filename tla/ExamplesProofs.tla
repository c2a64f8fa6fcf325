--------------------------- MODULE ExamplesProofs ---------------------------
(***************************************************************************)
(* Theorems about the three example programs: what they write and what     *)
(* they return, for every input, window, length field and split of the     *)
(* input into reads.                                                       *)
(***************************************************************************)
EXTENDS Examples, Records, ReaderStreamProofs

-----------------------------------------------------------------------------
(* Bytes that follow one another in the stream.                            *)
LEMMA RunOf ==
  ASSUME NEW v \in Seq(Nat), NEW base \in Nat, NEW k \in Nat, NEW n \in Nat,
         k + n <= Len(v), \A i \in 1..(k + n) : v[i] = base + i
  PROVE  SubSeq(v, k + 1, k + n) = Run(base + k, n)
  <1>1. /\ SubSeq(v, k + 1, k + n) \in Seq(Nat) /\ Len(SubSeq(v, k + 1, k + n)) = n
        /\ \A i \in 1..n : SubSeq(v, k + 1, k + n)[i] = v[k + i]
    BY Stretch
  <1>2. ASSUME NEW i \in 1..n PROVE SubSeq(v, k + 1, k + n)[i] = (base + k) + i
    <2>1. k \in Nat /\ n \in Nat /\ base \in Nat /\ i \in Nat /\ 1 <= i /\ i <= n
      OBVIOUS
    <2>2. k + i \in 1..(k + n)
      BY ONLY <2>1
    <2>3. base + (k + i) = (base + k) + i
      BY <2>1
    <2>. QED BY <1>1, <2>2, <2>3
  <1> DEFINE s == SubSeq(v, k + 1, k + n)
  <1>3. s \in Seq(Nat) /\ Len(s) = n /\ \A i \in 1..Len(s) : s[i] = (base + k) + i
    BY <1>1, <1>2
  <1>4. base + k \in Nat
    OBVIOUS
  <1> HIDE DEF s
  <1>5. s = Run(base + k, Len(s))
    BY ONLY <1>3, <1>4, IsRun
  <1>. QED BY <1>3, <1>5 DEF s

LEMMA Joined ==
  ASSUME NEW u \in Seq(Nat), NEW r \in Seq(Nat)
  PROVE  /\ u \o r \in Seq(Nat) /\ Len(u \o r) = Len(u) + Len(r)
         /\ \A i \in 1..Len(u) : (u \o r)[i] = u[i]
         /\ \A i \in 1..Len(r) : (u \o r)[Len(u) + i] = r[i]
  <1>1. u \o r \in Seq(Nat) /\ Len(u \o r) = Len(u) + Len(r)
    OBVIOUS
  <1>2. \A i \in 1..Len(u) : (u \o r)[i] = u[i]
    OBVIOUS
  <1>3. \A i \in 1..Len(r) : (u \o r)[Len(u) + i] = r[i]
    OBVIOUS
  <1>. QED BY <1>1, <1>2, <1>3

LEMMA RunJoined ==
  ASSUME NEW p \in Nat, NEW m \in Nat, NEW n \in Nat
  PROVE  Run(p, m) \o Run(p + m, n) = Run(p, m + n)
  <1> DEFINE a == Run(p, m)
             b == Run(p + m, n)
  <1>1. /\ a \in Seq(Nat) /\ Len(a) = m /\ b \in Seq(Nat) /\ Len(b) = n
    <2>1. p + m \in Nat
      OBVIOUS
    <2>2. b \in Seq(Nat) /\ Len(b) = n
      BY ONLY <2>1, n \in Nat, RunBytes
    <2>. QED BY <2>2, RunBytes
  <1>2. (\A i \in 1..m : a[i] = p + i) /\ (\A i \in 1..n : b[i] = p + m + i)
    BY DEF Run
  <1> HIDE DEF a, b
  <1>3. /\ a \o b \in Seq(Nat) /\ Len(a \o b) = Len(a) + Len(b)
        /\ \A i \in 1..Len(a) : (a \o b)[i] = a[i]
        /\ \A i \in 1..Len(b) : (a \o b)[Len(a) + i] = b[i]
    BY <1>1, Joined
  <1>4. ASSUME NEW i \in 1..(m + n) PROVE (a \o b)[i] = p + i
    <2>1. CASE i <= m
      <3>1. i \in 1..m
        BY <2>1
      <3>. QED BY <1>1, <1>2, <1>3, <3>1
    <2>2. CASE ~(i <= m)
      <3>1. i - m \in 1..n /\ m + (i - m) = i /\ p + m + (i - m) = p + i
        BY <2>2
      <3>. QED BY <1>1, <1>2, <1>3, <3>1
    <2>. QED BY <2>1, <2>2
  <1>5. a \o b \in Seq(Nat) /\ Len(a \o b) = m + n
    BY <1>1, <1>3
  <1>. QED BY <1>4, <1>5, IsRun DEF a, b

(* The bytes in the buffer from the k-th on.                                *)
LEMMA HeldRun ==
  ASSUME Served, NEW k \in Nat, NEW n \in Nat, k + n <= buf.len
  PROVE  SubSeq(buf.vec, k + 1, k + n) = Run((inner - buf.len) + k, n)
  <1>1. /\ buf.vec \in Seq(Nat) /\ buf.len \in Nat /\ buf.len <= Len(buf.vec)
        /\ inner - buf.len \in Nat
    BY ReaderFacts, ServedPosition DEF Served
  <1>2. \A i \in 1..buf.len : buf.vec[i] = inner - buf.len + i
    BY ServedFacts
  <1>3. k + n <= Len(buf.vec)
    BY <1>1
  <1>4. \A i \in 1..(k + n) : buf.vec[i] = (inner - buf.len) + i
    BY <1>1, <1>2
  <1>. QED BY <1>1, <1>3, <1>4, RunOf

LEMMA HeldUnconsumed ==
  ASSUME Served
  PROVE  Unconsumed(buf) = Run(StreamPosition, buf.len - buf.pos)
  <1>1. /\ buf.len \in Nat /\ buf.pos \in Nat /\ buf.pos <= buf.len /\ inner \in Nat
        /\ StreamPosition = inner - (buf.len - buf.pos)
    BY ServedFacts
  <1> DEFINE n == buf.len - buf.pos
  <1>2. n \in Nat /\ buf.pos + n = buf.len /\ (inner - buf.len) + buf.pos = inner - (buf.len - buf.pos)
    BY <1>1
  <1> HIDE DEF n
  <1>3. Served /\ buf.pos \in Nat /\ n \in Nat /\ buf.pos + n <= buf.len
    BY <1>1, <1>2
  <1>4. SubSeq(buf.vec, buf.pos + 1, buf.pos + n) = Run((inner - buf.len) + buf.pos, n)
    BY ONLY <1>3, HeldRun
  <1>. QED BY <1>1, <1>2, <1>4 DEF Unconsumed, n

-----------------------------------------------------------------------------
(* The reader of a program. *)
LEMMA OpensServed ==
  ASSUME NEW window \in Nat, NEW p \in 0..StreamLen, Opens(window, p)
  PROVE  /\ Served /\ Quiet /\ buf.len = 0 /\ buf.pos = 0 /\ inner = p
         /\ outcome = "running" /\ StreamPosition = p
  <1>1. /\ buf = InitialBuffer(NoLimit) /\ maxCapacity = MaxCapacity(window, NoLimit)
        /\ inner = p /\ lost = {} /\ call = NoCall /\ task = Ended(Task("other", 0), "ok")
        /\ outcome = "running"
    BY DEF Opens
  <1>2. inner \in 0..MAX_POSITION /\ p \in Nat
    BY <1>1, ReaderAssumption, SourceAssumption
  <1>3. ReaderInv /\ buf.len = 0 /\ Quiet /\ task.op = "other"
    BY <1>1, <1>2, Fresh
  <1>4. buf.pos = 0
    BY <1>3, ReaderFacts
  <1>5. Verdicts
    BY <1>1, <1>3, FreshVerdict DEF Quiet
  <1>6. Retained
    <2>1. 1..0 = {}
      OBVIOUS
    <2>. QED BY <1>3, <2>1 DEF Retained, Given, Sorted, Covered, Contiguous
  <1>7. StreamPosition = p
    BY <1>1, <1>2, <1>3, <1>4 DEF StreamPosition, Behind
  <1>. QED BY <1>1, <1>2, <1>3, <1>4, <1>5, <1>6, <1>7 DEF Served

LEMMA SameServed ==
  ASSUME Served, UNCHANGED vars
  PROVE  /\ Served' /\ StreamPosition' = StreamPosition
         /\ Quiet => Quiet'
         /\ Answered => Answered'
         /\ OneRead => OneRead'
  <1>1. ReaderInv /\ Verdicts /\ [Next]_vars /\ Still(buf)
    BY PartsStill DEF Served
  <1>2. ReaderInv' /\ Verdicts'
    BY <1>1, NextHolds, NextVerdict
  <1>3. Served'
    BY <1>1, <1>2, StillServed DEF vars
  <1>. QED BY <1>3 DEF vars, StreamPosition, Behind, Quiet, Idle, Answered, FoundFrom, OneRead

-----------------------------------------------------------------------------
(* The position before the first byte in the buffer.                        *)
Front == inner - buf.len

(* The newlines that a program sees from the front of the buffer.           *)
LEMMA FrontNewlines ==
  ASSUME Served, buf.pos = 0
  PROVE  Newlines = {i \in 1..buf.len : Front + i \in Delimiters} /\ Len(Available) = buf.len
  <1>1. /\ buf.len \in Nat /\ inner \in Nat /\ StreamPosition = inner - (buf.len - buf.pos)
        /\ Unconsumed(buf) = Run(StreamPosition, buf.len - buf.pos)
    BY ServedFacts, HeldUnconsumed
  <1>2. StreamPosition = Front /\ buf.len - buf.pos = buf.len
    BY <1>1 DEF Front
  <1>3. Available = Run(Front, buf.len)
    BY <1>1, <1>2 DEF Available
  <1>4. Len(Run(Front, buf.len)) = buf.len
    <2>1. Front \in Nat
      BY ServedPosition DEF Front
    <2>. QED BY <1>1, <2>1, RunBytes
  <1>5. \A i \in 1..buf.len : Run(Front, buf.len)[i] = Front + i
    BY DEF Run
  <1>. QED BY <1>3, <1>4, <1>5 DEF Newlines

(* A fill that has found no delimiter has met the end or filled the window. *)
LEMMA NothingFound ==
  ASSUME Served, buf.pos = 0, Answered, call.op = "fill_until",
         call.result \in {"complete", "eof", "capped"}, Newlines = {}
  PROVE  /\ \A i \in 1..buf.len : Front + i \notin Delimiters
         /\ inner = StreamLen \/ buf.len = maxCapacity
  <1>1. inner \in Nat /\ buf.len \in Nat /\ StreamLen \in Nat /\ inner <= StreamLen
    BY ServedFacts
  <1>2. \A i \in 1..buf.len : Front + i \notin Delimiters
    BY FrontNewlines
  <1>3. CASE call.result = "complete"
    <2>1. PICK i \in (0 + 1)..buf.len : buf.vec[i] \in Delimiters
      BY <1>3 DEF Answered, FoundFrom
    <2>2. i \in 1..buf.len
      <3>1. i \in Int /\ 1 <= i /\ i <= buf.len
        BY <1>1, <2>1
      <3>. QED BY <1>1, <3>1
    <2>3. buf.vec[i] = Front + i
      BY <2>2, ServedFacts DEF Front
    <2>. QED BY <1>2, <2>1, <2>2, <2>3
  <1>4. CASE call.result = "eof"
    <2>1. Remaining = 0 /\ inner + Remaining = StreamLen
      BY <1>4, ServedFacts DEF Verdicts, EofMeansEndOfStream
    <2>. QED BY <1>1, <1>2, <2>1
  <1>5. CASE call.result = "capped"
    BY <1>2, <1>5 DEF Answered
  <1>. QED BY <1>3, <1>4, <1>5

-----------------------------------------------------------------------------
(***************************************************************************)
(* The invariant of retained_prefix.  Until the header is taken nothing is *)
(* consumed, so that the buffer begins where the input does; from then on  *)
(* the reader is where the body ends, or where a read that io::copy has    *)
(* not yet written ends.                                                   *)
(***************************************************************************)
AtStart == buf.pos = 0 /\ inner = began + buf.len

BodyEnd == began + header.len + Len(body)

InFill == step = "fill" => Quiet /\ AtStart

InLook == step = "look" => task.pc = "idle" /\ call.op = "fill_until" /\ Answered /\ AtStart

InTake == step = "take" => Quiet /\ inner = began + buf.len /\ IsFirstLine(buf.pos)

Uncopied == step \in {"fill", "look", "take"} => body = <<>>

Cut == /\ header.len \in Nat /\ IsFirstLine(header.len)
       /\ Buf(header) = Run(began, header.len)
       /\ body \in Seq(Nat) /\ body = Run(began + header.len, Len(body))

InCopy == step = "copy" => Quiet /\ Cut /\ StreamPosition = BodyEnd

InCopied ==
  step = "copied" =>
    /\ Cut /\ OneRead /\ task.want > 0
    /\ outcome = "running" => /\ task.got \in Seq(Nat) /\ task.got = Run(BodyEnd, Len(task.got))
                              /\ StreamPosition = BodyEnd + Len(task.got)

PrefixEnd ==
  outcome # "running" =>
    /\ Quiet
    /\ outcome \in {"failed", "no header", "done"}
    /\ outcome = "done" => step = "copied" /\ BodyEnd = StreamLen
    /\ RefusedIsLong

PrefixInv == /\ Served /\ began \in Nat
             /\ step \in {"fill", "look", "take", "copy", "copied"}
             /\ InFill /\ InLook /\ InTake /\ Uncopied /\ InCopy /\ InCopied /\ PrefixEnd

-----------------------------------------------------------------------------
(* The steps of retained_prefix, one by one.                               *)

(* What a step that leaves the locals alone leaves of the cut. *)
LEMMA SameCut ==
  ASSUME UNCHANGED prefixVars
  PROVE  /\ header' = header /\ body' = body /\ began' = began /\ BodyEnd' = BodyEnd
         /\ Cut' = Cut
  <1>1. header' = header /\ body' = body /\ began' = began
    BY DEF prefixVars
  <1>. QED BY <1>1 DEF Cut, IsFirstLine, BodyEnd

LEMMA EmptyRun ==
  ASSUME NEW p \in Nat
  PROVE  <<>> \in Seq(Nat) /\ Len(<<>>) = 0 /\ <<>> = Run(p, Len(<<>>))
  <1>1. <<>> \in Seq(Nat) /\ Len(<<>>) = 0 /\ \A i \in 1..Len(<<>>) : <<>>[i] = p + i
    OBVIOUS
  <1>. QED BY <1>1, IsRun

LEMMA PrefixBegins ==
  ASSUME PrefixInit
  PROVE  PrefixInv
  <1>1. PICK p \in 0..StreamLen : /\ Opens(CHUNK_SIZE, p) /\ began = p
                                  /\ step = "fill" /\ body = <<>>
    BY DEF PrefixInit
  <1>2. CHUNK_SIZE \in Nat /\ p \in Nat
    BY SourceAssumption, CapacityAssumption
  <1>3. /\ Served /\ Quiet /\ buf.len = 0 /\ buf.pos = 0 /\ inner = p /\ outcome = "running"
    BY <1>1, <1>2, OpensServed
  <1>4. AtStart /\ began \in Nat
    BY <1>1, <1>2, <1>3 DEF AtStart
  <1>. QED BY <1>1, <1>3, <1>4 DEF PrefixInv, InFill, InLook, InTake, Uncopied, InCopy, InCopied,
                                   PrefixEnd

LEMMA InsideKeepsPrefix ==
  ASSUME PrefixInv, Inside, UNCHANGED prefixVars
  PROVE  PrefixInv'
  <1>1. /\ Served /\ Work /\ step' = step /\ outcome' = outcome /\ began \in Nat
        /\ step \in {"fill", "look", "take", "copy", "copied"}
    BY DEF PrefixInv, Inside
  <1>2. Served' /\ ~Quiet
    BY <1>1, WorkServed
  <1>3. /\ header' = header /\ body' = body /\ began' = began /\ BodyEnd' = BodyEnd
        /\ Cut' = Cut
    BY SameCut
  <1>4. step \in {"look", "copied"} /\ outcome = "running"
    BY <1>1, <1>2 DEF PrefixInv, InFill, InTake, InCopy, PrefixEnd
  <1>5. ASSUME step = "look"
        PROVE  task'.pc = "idle" /\ call'.op = "fill_until" /\ Answered' /\ AtStart'
    <2>1. task.pc = "idle" /\ call.op = "fill_until" /\ buf.pos = 0 /\ inner = began + buf.len
      BY <1>5 DEF PrefixInv, InLook, AtStart
    <2>2. /\ Served' /\ Answered' /\ task'.pc = "idle" /\ call'.op = call.op
          /\ buf'.pos = buf.pos /\ inner' - buf'.len = inner - buf.len
      BY <1>1, <2>1, FillWork
    <2>3. inner \in Nat /\ buf.len \in Nat
      BY <1>1, ServedFacts
    <2>4. inner' \in Nat /\ buf'.len \in Nat
      BY <1>2, Fields DEF Served, ReaderInv, FillInvariant
    <2>5. inner' = began + buf'.len
      BY <1>1, <2>1, <2>2, <2>3, <2>4
    <2>. QED BY <1>3, <2>1, <2>2, <2>5 DEF AtStart
  <1>6. ASSUME step = "copied"
        PROVE  /\ Cut' /\ OneRead' /\ task'.want > 0
               /\ task'.got \in Seq(Nat) /\ task'.got = Run(BodyEnd', Len(task'.got))
               /\ StreamPosition' = BodyEnd' + Len(task'.got)
    <2>1. /\ Cut /\ OneRead /\ task.want > 0 /\ StreamPosition = BodyEnd + Len(task.got)
      BY <1>4, <1>6 DEF PrefixInv, InCopied
    <2>2. task.pc # "idle" /\ task.got = <<>>
      <3>1. Waiting
        BY <1>1, ServedFacts DEF Verdicts
      <3>2. task.pc # "idle"
        BY <1>2, <2>1, <3>1 DEF Quiet, Waiting, OneRead
      <3>. QED BY <2>1, <3>2 DEF OneRead
    <2>3. /\ OneRead' /\ task'.want = task.want
          /\ StreamPosition' = StreamPosition + Len(task'.got)
          /\ task'.got \in Seq(Nat) /\ task'.got = Run(StreamPosition, Len(task'.got))
      BY <1>1, <2>1, <2>2, ReadWork
    <2>4. StreamPosition = BodyEnd
      <3>1. Len(<<>>) = 0 /\ BodyEnd \in Nat
        BY <1>1, <2>1 DEF BodyEnd, Cut
      <3>. QED BY <2>1, <2>2, <3>1
    <2>. QED BY <1>3, <2>1, <2>3, <2>4
  <1>7. CASE step = "look"
    BY <1>1, <1>2, <1>3, <1>4, <1>5, <1>7
       DEF PrefixInv, InFill, InLook, InTake, Uncopied, InCopy, InCopied, PrefixEnd
  <1>8. CASE step = "copied"
    BY <1>1, <1>2, <1>3, <1>4, <1>6, <1>8
       DEF PrefixInv, InFill, InLook, InTake, Uncopied, InCopy, InCopied, PrefixEnd
  <1>. QED BY <1>4, <1>7, <1>8

LEMMA FillHeaderKeeps ==
  ASSUME PrefixInv, FillHeader
  PROVE  PrefixInv'
  <1>1. /\ Served /\ Fills(FillUntil) /\ step = "fill" /\ step' = "look" /\ began \in Nat
        /\ outcome = "running" /\ outcome' = outcome /\ UNCHANGED prefixVars
        /\ AtStart /\ body = <<>>
    BY DEF PrefixInv, FillHeader, At, Goes, InFill, Uncopied
  <1>2. /\ Served' /\ Answered' /\ buf' = buf /\ inner' = inner
        /\ task'.pc = "idle" /\ call'.op = "fill_until"
    BY <1>1, FillUntilServed
  <1>3. body' = body /\ began' = began
    BY <1>1, SameCut
  <1>4. AtStart'
    BY <1>1, <1>2, <1>3 DEF AtStart
  <1>. QED BY <1>1, <1>2, <1>3, <1>4
           DEF PrefixInv, InFill, InLook, InTake, Uncopied, InCopy, InCopied, PrefixEnd

LEMMA BeganAtFront ==
  ASSUME Served, AtStart, began \in Nat
  PROVE  Front = began /\ buf.pos = 0
  <1>1. inner = began + buf.len /\ buf.pos = 0 /\ buf.len \in Nat
    BY ServedFacts DEF AtStart
  <1>. QED BY <1>1 DEF Front

(* The program has returned, and has not touched its reader. *)
LEMMA PrefixReturns ==
  ASSUME PrefixInv, NEW result \in {"failed", "no header", "done"}, Quiet, Return(result),
         UNCHANGED prefixVars,
         result = "done" => step = "copied" /\ BodyEnd = StreamLen,
         result = "no header" => \A n \in 1..CHUNK_SIZE : ~IsFirstLine(n)
  PROVE  PrefixInv'
  <1>1. Served /\ UNCHANGED vars /\ step' = step /\ outcome' = result
    BY DEF PrefixInv, Return
  <1>2. /\ Served' /\ Quiet' /\ StreamPosition' = StreamPosition /\ (Answered => Answered')
        /\ (OneRead => OneRead')
    BY <1>1, SameServed
  <1>3. /\ header' = header /\ body' = body /\ began' = began /\ BodyEnd' = BodyEnd
        /\ Cut' = Cut
    BY SameCut
  <1>4. buf' = buf /\ inner' = inner /\ task' = task /\ call' = call
    BY <1>1 DEF vars
  <1>5. AtStart => AtStart'
    BY <1>3, <1>4 DEF AtStart
  <1>6. IsFirstLine(buf.pos) => IsFirstLine(buf.pos)'
    BY <1>3, <1>4 DEF IsFirstLine
  <1>7. RefusedIsLong'
    BY <1>1, <1>3 DEF RefusedIsLong, IsFirstLine
  <1>8. /\ began' \in Nat /\ step' \in {"fill", "look", "take", "copy", "copied"}
        /\ InFill' /\ InLook' /\ InTake' /\ Uncopied'
    BY <1>1, <1>2, <1>3, <1>4, <1>5, <1>6 DEF PrefixInv, InFill, InLook, InTake, Uncopied
  <1>9. InCopy' /\ InCopied'
    BY <1>1, <1>2, <1>3, <1>4 DEF PrefixInv, InCopy, InCopied
  <1>10. PrefixEnd'
    BY <1>1, <1>2, <1>3, <1>7 DEF PrefixEnd
  <1>. QED BY <1>2, <1>8, <1>9, <1>10 DEF PrefixInv

LEMMA NoHeaderKeeps ==
  ASSUME PrefixInv, NoHeader
  PROVE  PrefixInv'
  <1>1. /\ Served /\ Quiet /\ Return("no header") /\ UNCHANGED prefixVars /\ began \in Nat
        /\ Newlines = {} /\ call.result \in {"complete", "eof", "capped"}
        /\ call.op = "fill_until" /\ Answered /\ AtStart
    BY DEF PrefixInv, NoHeader, Looking, At, InLook
  <1>2. /\ inner \in Nat /\ buf.len \in Nat /\ inner = began + buf.len /\ StreamLen \in Nat
        /\ inner <= StreamLen /\ began \in Nat /\ CHUNK_SIZE \in Nat /\ maxCapacity \in Nat
        /\ CHUNK_SIZE <= maxCapacity
    <2>1. maxCapacity \in Capacities /\ CHUNK_SIZE \in Nat
      BY <1>1, ReaderFacts, CapacityAssumption DEF Served
    <2>. QED BY <1>1, <2>1, ServedFacts, CapacityChunks DEF AtStart
  <1>3. /\ \A i \in 1..buf.len : began + i \notin Delimiters
        /\ inner = StreamLen \/ buf.len = maxCapacity
    BY <1>1, BeganAtFront, NothingFound
  <1>4. inner = StreamLen \/ CHUNK_SIZE <= buf.len
    BY <1>2, <1>3
  <1>5. ASSUME NEW n \in 1..CHUNK_SIZE PROVE ~IsFirstLine(n)
    <2>1. CASE n <= buf.len
      <3>1. n \in 1..buf.len
        BY <1>2, <2>1
      <3>. QED BY <1>3, <3>1 DEF IsFirstLine
    <2>2. CASE ~(n <= buf.len)
      <3>1. ~(began + n <= StreamLen)
        BY <1>2, <1>4, <2>2
      <3>2. began + n \notin Delimiters
        <4>1. Delimiters \subseteq 1..StreamLen
          BY PrefixAssumption
        <4>2. began + n \notin 1..StreamLen
          BY <1>2, <3>1
        <4>. QED BY <4>1, <4>2
      <3>. QED BY <3>2 DEF IsFirstLine
    <2>. QED BY <2>1, <2>2
  <1>. QED BY <1>1, <1>5, PrefixReturns

LEMMA ConsumeHeaderKeeps ==
  ASSUME PrefixInv, ConsumeHeader
  PROVE  PrefixInv'
  <1>1. /\ Served /\ step = "look" /\ step' = "take" /\ outcome = "running"
        /\ outcome' = outcome /\ UNCHANGED prefixVars /\ began \in Nat /\ AtStart /\ body = <<>>
    BY DEF PrefixInv, ConsumeHeader, Looking, At, Goes, InLook, Uncopied
  <1>2. PICK n \in Newlines : (\A i \in Newlines : n <= i) /\ ConsumeCall(n)
    BY DEF ConsumeHeader
  <1>3. /\ buf.len \in Nat /\ buf.pos = 0 /\ inner = began + buf.len
    BY <1>1, ServedFacts DEF AtStart
  <1>4. Newlines = {i \in 1..buf.len : began + i \in Delimiters}
    BY <1>1, BeganAtFront, FrontNewlines
  <1>5. n \in 1..buf.len /\ began + n \in Delimiters
    BY <1>2, <1>4
  <1>6. n \in Nat /\ n <= buf.len - buf.pos
    BY <1>3, <1>5
  <1>7. /\ Served' /\ Quiet' /\ inner' = inner /\ buf'.len = buf.len
        /\ buf'.pos = buf.pos + n
    BY <1>1, <1>2, <1>6, ConsumeServed
  <1>8. buf'.pos = n
    BY <1>3, <1>6, <1>7
  <1>9. body' = body /\ began' = began
    BY <1>1, SameCut
  <1>10. ASSUME NEW i \in 1..(n - 1) PROVE began + i \notin Delimiters
    <2>1. i \in 1..buf.len /\ ~(n <= i)
      BY <1>3, <1>5
    <2>. QED BY <1>2, <1>4, <2>1
  <1>11. IsFirstLine(buf.pos)'
    BY <1>5, <1>8, <1>9, <1>10 DEF IsFirstLine
  <1>. QED BY <1>1, <1>3, <1>7, <1>9, <1>11
           DEF PrefixInv, InFill, InLook, InTake, Uncopied, InCopy, InCopied, PrefixEnd

LEMMA TakeHeaderKeeps ==
  ASSUME PrefixInv, TakeHeader
  PROVE  PrefixInv'
  <1>1. /\ Served /\ step' = "copy" /\ outcome = "running" /\ outcome' = outcome
        /\ began \in Nat /\ inner = began + buf.len /\ IsFirstLine(buf.pos) /\ body = <<>>
        /\ header' = TakenPart(buf) /\ TakeConsumedCall /\ body' = body /\ began' = began
    BY DEF PrefixInv, TakeHeader, At, Goes, InTake, Uncopied
  <1>2. /\ buf.len \in Nat /\ buf.pos \in Nat /\ buf.pos <= buf.len /\ WellFormed(buf)
        /\ buf.vec \in Seq(Nat)
    BY <1>1, ReaderFacts DEF Served
  <1>3. /\ Served' /\ Quiet' /\ inner' = inner /\ buf'.pos = 0 /\ buf'.len = buf.len - buf.pos
    BY <1>1, TakeConsumedServed
  <1> DEFINE h == TakenPart(buf)
  <1>4. /\ WellFormed(h) /\ h.len = buf.pos /\ \A i \in 1..buf.pos : h.vec[i] = buf.vec[i]
    BY <1>2, TakenWellFormed
  <1> HIDE DEF h
  <1>5. h.vec \in Seq(Nat) /\ h.len \in Nat /\ h.len <= Len(h.vec)
    BY <1>4, Fields
  <1>6. ASSUME NEW i \in 1..h.len PROVE h.vec[i] = began + i
    <2>1. i \in 1..buf.pos /\ i \in 1..buf.len /\ inner - buf.len + i = began + i
      BY <1>1, <1>2, <1>4
    <2>2. buf.vec[i] = inner - buf.len + i
      BY <1>1, <2>1, ServedFacts
    <2>. QED BY <1>4, <2>1, <2>2
  <1>7. Buf(h) = Run(began, h.len)
    <2>1. /\ h.vec \in Seq(Nat) /\ began \in Nat /\ h.len \in Nat /\ 0 + h.len <= Len(h.vec)
          /\ \A i \in 1..(0 + h.len) : h.vec[i] = began + i
      BY <1>1, <1>5, <1>6
    <2>2. SubSeq(h.vec, 0 + 1, 0 + h.len) = Run(began + 0, h.len)
      BY ONLY <2>1, 0 \in Nat, RunOf
    <2>3. 0 + 1 = 1 /\ 0 + h.len = h.len /\ began + 0 = began
      BY <1>1, <1>5
    <2>. QED BY <2>2, <2>3 DEF Buf
  <1>8. /\ header' = h /\ IsFirstLine(header.len)'
    BY <1>1, <1>4 DEF h, IsFirstLine
  <1>9. body' \in Seq(Nat) /\ Len(body') = 0 /\ body' = Run(began + h.len, Len(body'))
    BY <1>1, <1>5, EmptyRun
  <1>10. Cut'
    BY <1>1, <1>5, <1>7, <1>8, <1>9 DEF Cut
  <1>11. StreamPosition' = BodyEnd'
    <2>1. inner' - (buf'.len - buf'.pos) = began + h.len + Len(body')
      BY <1>1, <1>2, <1>3, <1>4, <1>9
    <2>. QED BY <1>1, <1>8, <2>1, Zenon DEF StreamPosition, Behind, BodyEnd
  <1>. QED BY <1>1, <1>3, <1>10, <1>11
           DEF PrefixInv, InFill, InLook, InTake, Uncopied, InCopy, InCopied, PrefixEnd

LEMMA CopyReadKeeps ==
  ASSUME PrefixInv, CopyRead
  PROVE  PrefixInv'
  <1>1. /\ Served /\ step' = "copied" /\ outcome = "running" /\ outcome' = outcome
        /\ began \in Nat /\ Cut /\ StreamPosition = BodyEnd /\ UNCHANGED prefixVars
    BY DEF PrefixInv, CopyRead, At, Goes, InCopy
  <1>2. PICK n \in CopyLens : StartRead("read", n)
    BY DEF CopyRead
  <1>3. n \in Nat /\ n > 0
    BY PrefixAssumption
  <1>4. /\ Served' /\ OneRead' /\ buf' = buf /\ inner' = inner
        /\ task'.got = <<>> /\ task'.want = n
    BY <1>1, <1>2, <1>3, ReadServed
  <1>5. /\ began' = began /\ BodyEnd' = BodyEnd /\ Cut'
    BY <1>1, SameCut
  <1>6. StreamPosition' = StreamPosition
    BY <1>4 DEF StreamPosition, Behind
  <1>7. BodyEnd \in Nat
    BY <1>1 DEF BodyEnd, Cut
  <1>8. task'.got \in Seq(Nat) /\ Len(task'.got) = 0 /\ task'.got = Run(BodyEnd', Len(task'.got))
    BY <1>4, <1>5, <1>7, EmptyRun
  <1>9. StreamPosition' = BodyEnd' + Len(task'.got)
    BY <1>1, <1>5, <1>6, <1>7, <1>8
  <1>. QED BY <1>1, <1>3, <1>4, <1>5, <1>8, <1>9
           DEF PrefixInv, InFill, InLook, InTake, Uncopied, InCopy, InCopied, PrefixEnd

(* Part of what was read is appended to the body. *)
LEMMA BodyAppend ==
  ASSUME Cut, began \in Nat, NEW n \in Nat, body' = body \o Run(BodyEnd, n),
         header' = header, began' = began
  PROVE  Cut' /\ BodyEnd' = BodyEnd + n
  <1>1. /\ header.len \in Nat /\ body \in Seq(Nat) /\ body = Run(began + header.len, Len(body))
        /\ Len(body) \in Nat /\ began + header.len \in Nat /\ BodyEnd \in Nat
        /\ BodyEnd = began + header.len + Len(body)
    BY DEF Cut, BodyEnd
  <1> DEFINE p == began + header.len
             m == Len(body)
  <1>2. p \in Nat /\ m \in Nat /\ body = Run(p, m) /\ BodyEnd = p + m
    BY <1>1
  <1> HIDE DEF p, m
  <1>3. body' = Run(p, m + n)
    <2>1. Run(p, m) \o Run(p + m, n) = Run(p, m + n)
      BY <1>2, RunJoined
    <2>2. body' = Run(p, m) \o Run(p + m, n)
      BY <1>2
    <2>. QED BY <2>1, <2>2
  <1>4. m + n \in Nat
    BY <1>2
  <1>5. body' \in Seq(Nat) /\ Len(body') = m + n
    BY <1>2, <1>3, <1>4, RunBytes
  <1>6. Cut'
    BY <1>3, <1>5 DEF Cut, IsFirstLine, p
  <1>7. BodyEnd' = began + header.len + (m + n)
    BY <1>5 DEF BodyEnd
  <1>8. began + header.len + (m + n) = p + m + n
    BY <1>2, <1>4 DEF p
  <1>. QED BY <1>2, <1>6, <1>7, <1>8

LEMMA CopyWriteKeeps ==
  ASSUME PrefixInv, CopyWrite
  PROVE  PrefixInv'
  <1>1. /\ Served /\ Quiet /\ step' = "copy" /\ outcome = "running" /\ outcome' = outcome
        /\ began \in Nat /\ Cut /\ UNCHANGED vars /\ header' = header /\ began' = began
        /\ body' = body \o task.got /\ task.got \in Seq(Nat)
        /\ task.got = Run(BodyEnd, Len(task.got)) /\ StreamPosition = BodyEnd + Len(task.got)
    BY DEF PrefixInv, CopyWrite, At, Goes, InCopied
  <1>2. Served' /\ Quiet' /\ StreamPosition' = StreamPosition
    BY <1>1, SameServed
  <1>3. body' = body \o Run(BodyEnd, Len(task.got)) /\ Len(task.got) \in Nat
    <2>1. task.got \in Seq(Nat)
      BY <1>1
    <2>2. Len(task.got) \in Nat
      BY <2>1
    <2>. QED BY <1>1, <2>2, Zenon
  <1>4. Cut' /\ BodyEnd' = BodyEnd + Len(task.got)
    BY <1>1, <1>3, BodyAppend
  <1>. QED BY <1>1, <1>2, <1>4
           DEF PrefixInv, InFill, InLook, InTake, Uncopied, InCopy, InCopied, PrefixEnd

LEMMA CopyDoneKeeps ==
  ASSUME PrefixInv, CopyDone
  PROVE  PrefixInv'
  <1>1. /\ Served /\ Quiet /\ Return("done") /\ UNCHANGED prefixVars /\ step = "copied"
        /\ task.result = "ok" /\ task.got = <<>> /\ task.op = "read" /\ task.want > 0
        /\ StreamPosition = BodyEnd + Len(task.got) /\ Cut /\ began \in Nat
    BY DEF PrefixInv, CopyDone, At, InCopied, OneRead
  <1>2. Remaining = 0 /\ Behind = 0
    BY <1>1, ServedFacts DEF Verdicts, ShortReadIsEnd
  <1>3. inner \in Nat /\ inner + Remaining = StreamLen /\ StreamPosition = inner - Behind
    BY <1>1, ServedFacts DEF StreamPosition
  <1>4. BodyEnd \in Nat /\ Len(task.got) = 0
    BY <1>1 DEF BodyEnd, Cut
  <1>5. BodyEnd = StreamLen
    BY <1>1, <1>2, <1>3, <1>4
  <1>. QED BY <1>1, <1>5, PrefixReturns

LEMMA CopyAgainKeeps ==
  ASSUME PrefixInv, CopyAgain
  PROVE  PrefixInv'
  <1>1. /\ Served /\ Quiet /\ step' = "copy" /\ outcome = "running" /\ outcome' = outcome
        /\ began \in Nat /\ Cut /\ UNCHANGED vars /\ UNCHANGED prefixVars /\ task.got = <<>>
        /\ StreamPosition = BodyEnd + Len(task.got)
    BY DEF PrefixInv, CopyAgain, At, Goes, InCopied, OneRead
  <1>2. Served' /\ Quiet' /\ StreamPosition' = StreamPosition
    BY <1>1, SameServed
  <1>3. began' = began /\ BodyEnd' = BodyEnd /\ Cut'
    BY <1>1, SameCut
  <1>4. BodyEnd \in Nat /\ Len(task.got) = 0
    BY <1>1 DEF BodyEnd, Cut
  <1>5. StreamPosition' = BodyEnd'
    BY <1>1, <1>2, <1>3, <1>4
  <1>. QED BY <1>1, <1>2, <1>3, <1>5
           DEF PrefixInv, InFill, InLook, InTake, Uncopied, InCopy, InCopied, PrefixEnd

LEMMA CopyFailedKeeps ==
  ASSUME PrefixInv, CopyFailed
  PROVE  PrefixInv'
  <1>1. /\ Served /\ Quiet /\ step = "copied" /\ step' = step /\ outcome' = "failed"
        /\ began \in Nat /\ Cut /\ OneRead /\ task.want > 0 /\ UNCHANGED vars
        /\ header' = header /\ began' = began
        /\ task.got \in Seq(Nat) /\ task.got = Run(BodyEnd, Len(task.got))
    BY DEF PrefixInv, CopyFailed, At, Return, InCopied
  <1>2. Served' /\ Quiet' /\ OneRead'
    BY <1>1, SameServed
  <1>3. task'.want > 0
    BY <1>1 DEF vars
  <1>4. Cut'
    <2>1. CASE task.result = "error"
      BY <1>1, <2>1, SameCut DEF CopyFailed, prefixVars
    <2>2. CASE task.result # "error"
      <3>1. PICK n \in 0..(Len(task.got) - 1) : body' = body \o SubSeq(task.got, 1, n)
        BY <2>2 DEF CopyFailed
      <3>2. n \in Nat /\ n <= Len(task.got) /\ Len(task.got) \in Nat /\ BodyEnd \in Nat
        BY <1>1, <3>1 DEF BodyEnd, Cut
      <3>3. \A i \in 1..Len(task.got) : task.got[i] = BodyEnd + i
        BY <1>1 DEF Run
      <3>4. SubSeq(task.got, 1, n) = Run(BodyEnd, n)
        <4>1. /\ task.got \in Seq(Nat) /\ BodyEnd \in Nat /\ n \in Nat /\ 0 + n <= Len(task.got)
              /\ \A i \in 1..(0 + n) : task.got[i] = BodyEnd + i
          BY <1>1, <3>2, <3>3
        <4>2. SubSeq(task.got, 0 + 1, 0 + n) = Run(BodyEnd + 0, n)
          BY ONLY <4>1, 0 \in Nat, RunOf
        <4>3. 0 + 1 = 1 /\ 0 + n = n /\ BodyEnd + 0 = BodyEnd
          BY <3>2
        <4>. QED BY <4>2, <4>3
      <3>. QED BY <1>1, <3>1, <3>2, <3>4, BodyAppend
    <2>. QED BY <2>1, <2>2
  <1>. QED BY <1>1, <1>2, <1>3, <1>4
           DEF PrefixInv, InFill, InLook, InTake, Uncopied, InCopy, InCopied, PrefixEnd, RefusedIsLong

LEMMA PrefixHolds ==
  ASSUME PrefixInv, PrefixNext
  PROVE  PrefixInv'
  <1>1. CASE HeaderFailed
    BY <1>1, PrefixReturns DEF HeaderFailed, LookFailed, At
  <1>. QED BY <1>1, InsideKeepsPrefix, FillHeaderKeeps, NoHeaderKeeps, ConsumeHeaderKeeps,
              TakeHeaderKeeps, CopyReadKeeps, CopyWriteKeeps, CopyDoneKeeps, CopyAgainKeeps,
              CopyFailedKeeps DEF PrefixNext

(* What the invariant says of the header and the body. *)
LEMMA PrefixCuts ==
  ASSUME PrefixInv
  PROVE  CutOnce /\ RefusedIsLong
  <1>1. RefusedIsLong
    BY DEF PrefixInv, PrefixEnd, RefusedIsLong
  <1>2. ASSUME step \in {"copy", "copied"}
        PROVE  /\ IsFirstLine(header.len)
               /\ Buf(header) \o body = Run(began, header.len + Len(body))
               /\ outcome = "done" => began + (header.len + Len(body)) = StreamLen
    <2>1. Cut /\ began \in Nat
      BY <1>2 DEF PrefixInv, InCopy, InCopied
    <2>2. /\ header.len \in Nat /\ Len(body) \in Nat /\ IsFirstLine(header.len)
          /\ Buf(header) = Run(began, header.len)
          /\ body = Run(began + header.len, Len(body))
      BY <2>1 DEF Cut
    <2>3. Run(began, header.len) \o Run(began + header.len, Len(body))
            = Run(began, header.len + Len(body))
      BY <2>1, <2>2, RunJoined
    <2>4. began + header.len + Len(body) = began + (header.len + Len(body))
      BY <2>1, <2>2
    <2>5. outcome = "done" => began + header.len + Len(body) = StreamLen
      BY DEF PrefixInv, PrefixEnd, BodyEnd
    <2>. QED BY <2>2, <2>3, <2>4, <2>5
  <1>. QED BY <1>1, <1>2 DEF CutOnce

-----------------------------------------------------------------------------
(***************************************************************************)
(* The invariant of binary_frames.  Until a payload is printed the buffer  *)
(* begins where the next frame does, and what was asked of a fill is what  *)
(* the next statement needs.                                               *)
(***************************************************************************)
NextFrame == Begin[Len(printed) + 1]

FrameAt(n) == buf.pos = 0 /\ StreamPosition = NextFrame /\ n <= buf.len

Asked(n) == /\ task.pc = "idle" /\ call.op = "fill_amount" /\ Answered
            /\ n <= call.first + call.amt

FrameFits == outcome = "running" => FrameLen <= maxCapacity

InFirst   == step = "first"  => Quiet /\ FrameAt(0)
InLength  == step = "length" => Quiet /\ FrameAt(1)
InPayload == step = "payload" => Quiet /\ FrameAt(2) /\ FrameFits

InFilledFirst   == step = "filled first" => Asked(1) /\ FrameAt(0)
InFilledLength  == step = "filled length" => Asked(2) /\ FrameAt(1)
InFilledPayload == step = "filled payload" => Asked(FrameLen) /\ FrameAt(2)

InPrint == step = "print" => /\ Quiet /\ buf.pos = 2 /\ FrameLen <= buf.len
                             /\ StreamPosition = NextFrame + 2

InPrinted == step = "printed" => Quiet /\ StreamPosition = NextFrame

FramesEnd == outcome # "running" => Quiet

FramesSteps == {"first", "filled first", "length", "filled length", "payload",
                "filled payload", "print", "printed"}

FramesInv == /\ Served /\ payloadLen \in Nat /\ printed \in Seq(Seq(Nat))
             /\ step \in FramesSteps
             /\ InFirst /\ InLength /\ InPayload
             /\ InFilledFirst /\ InFilledLength /\ InFilledPayload
             /\ InPrint /\ InPrinted
             /\ PayloadsIntact /\ FramesVerdict /\ FramesEnd

-----------------------------------------------------------------------------
(* Where the frames begin.                                                 *)
IsBegin(f, out) ==
  f = [k \in 1..(Len(out) + 1) |-> IF k = 1 THEN 0 ELSE f[k - 1] + 2 + Len(out[k - 1])]

BeginOf(out) == CHOOSE f : IsBegin(f, out)

(* f adds up the frames before the k-th, for every k up to m. *)
AddsUp(f, out, m) == f[1] = 0 /\ \A k \in 2..m : f[k] = f[k - 1] + 2 + Len(out[k - 1])

LEMMA SumsExist ==
  ASSUME NEW out \in Seq(Seq(Nat))
  PROVE  \E f \in [1..(Len(out) + 1) -> Nat] : AddsUp(f, out, Len(out) + 1)
  <1> DEFINE P(n) == \E f \in [1..(n + 1) -> Nat] : AddsUp(f, out, n + 1)
             S == {n \in 0..Len(out) : ~P(n)}
  <1>1. Len(out) \in Nat /\ S \in SUBSET Nat
    OBVIOUS
  <1>2. P(0)
    <2> DEFINE f == [k \in 1..(0 + 1) |-> 0]
    <2>1. f \in [1..(0 + 1) -> Nat] /\ f[1] = 0 /\ 2..(0 + 1) = {}
      OBVIOUS
    <2>. QED BY <2>1 DEF AddsUp
  <1>3. ASSUME NEW n \in 1..Len(out), P(n - 1)
        PROVE  P(n)
    <2>1. n \in Nat /\ n >= 1 /\ (n - 1) + 1 = n /\ Len(out[n]) \in Nat
      OBVIOUS
    <2>2. PICK f \in [1..((n - 1) + 1) -> Nat] : AddsUp(f, out, (n - 1) + 1)
      BY <1>3
    <2>3. f \in [1..n -> Nat] /\ AddsUp(f, out, n)
      BY <2>1, <2>2
    <2> DEFINE g == [k \in 1..(n + 1) |-> IF k = n + 1 THEN f[n] + 2 + Len(out[n]) ELSE f[k]]
    <2>4. g \in [1..(n + 1) -> Nat]
      BY <2>1, <2>3
    <2>5. /\ \A k \in 1..n : g[k] = f[k]
          /\ g[n + 1] = f[n] + 2 + Len(out[n])
      BY <2>1
    <2> HIDE DEF g
    <2>6. g[1] = 0
      BY <2>1, <2>3, <2>5 DEF AddsUp
    <2>7. ASSUME NEW k \in 2..(n + 1)
          PROVE  g[k] = g[k - 1] + 2 + Len(out[k - 1])
      <3>1. CASE k = n + 1
        <4>1. k - 1 = n /\ n \in 1..n
          BY <2>1, <3>1
        <4>. QED BY <2>5, <3>1, <4>1
      <3>2. CASE k # n + 1
        <4>1. k \in 1..n /\ k - 1 \in 1..n /\ k \in 2..n
          BY <2>1, <3>2
        <4>. QED BY <2>3, <2>5, <4>1 DEF AddsUp
      <3>. QED BY <3>1, <3>2
    <2>8. AddsUp(g, out, n + 1)
      BY <2>6, <2>7 DEF AddsUp
    <2>. QED BY <2>4, <2>8
  <1> HIDE DEF P
  <1>4. S = {}
    <2>1. SUFFICES ASSUME NEW e \in S PROVE FALSE
      OBVIOUS
    <2>2. PICK n \in S : \A m \in S : n <= m
      BY <1>1, <2>1, Least
    <2>3. n \in 1..Len(out)
      BY <1>1, <1>2, <2>2
    <2>4. n - 1 \in 0..Len(out) /\ ~(n <= n - 1)
      BY <1>1, <2>3
    <2>5. P(n - 1)
      BY <2>2, <2>4
    <2>. QED BY <1>3, <2>2, <2>3, <2>5
  <1>5. P(Len(out))
    BY <1>1, <1>4
  <1>. QED BY <1>5 DEF P

LEMMA SumsAgree ==
  ASSUME NEW f, NEW g, NEW out, NEW more, NEW m \in Nat,
         AddsUp(f, out, m), AddsUp(g, more, m),
         \A k \in 1..(m - 1) : more[k] = out[k]
  PROVE  \A k \in 1..m : f[k] = g[k]
  <1> DEFINE S == {k \in 1..m : f[k] # g[k]}
  <1>1. S \in SUBSET Nat
    OBVIOUS
  <1>2. SUFFICES ASSUME NEW e \in S PROVE FALSE
    OBVIOUS
  <1>3. PICK n \in S : \A k \in S : n <= k
    BY <1>1, <1>2, Least
  <1>4. n # 1
    BY <1>3 DEF AddsUp
  <1>5. n \in 2..m /\ n - 1 \in 1..(m - 1) /\ n - 1 \in 1..m /\ ~(n <= n - 1)
    BY <1>3, <1>4
  <1>6. f[n - 1] = g[n - 1]
    BY <1>3, <1>5
  <1>7. f[n] = f[n - 1] + 2 + Len(out[n - 1]) /\ g[n] = g[n - 1] + 2 + Len(more[n - 1])
    BY <1>5 DEF AddsUp
  <1>8. more[n - 1] = out[n - 1]
    BY <1>5
  <1>. QED BY <1>3, <1>6, <1>7, <1>8

LEMMA BeginSums ==
  ASSUME NEW out \in Seq(Seq(Nat))
  PROVE  /\ AddsUp(BeginOf(out), out, Len(out) + 1)
         /\ \A k \in 1..(Len(out) + 1) : BeginOf(out)[k] \in Nat
  <1>1. PICK f \in [1..(Len(out) + 1) -> Nat] : AddsUp(f, out, Len(out) + 1)
    BY SumsExist
  <1>2. Len(out) \in Nat
    OBVIOUS
  <1> DEFINE m == Len(out) + 1
  <1>3. m \in Nat /\ 1 \in 1..m
    BY <1>2
  <1>4. IsBegin(f, out)
    <2> DEFINE g == [k \in 1..m |-> IF k = 1 THEN 0 ELSE f[k - 1] + 2 + Len(out[k - 1])]
    <2>1. ASSUME NEW k \in 1..m PROVE f[k] = g[k]
      <3>1. k # 1 => k \in 2..m
        BY <1>3
      <3>. QED BY <1>1, <3>1 DEF AddsUp
    <2>2. f = g
      BY <1>1, <2>1
    <2>. QED BY <2>2 DEF IsBegin
  <1>5. IsBegin(BeginOf(out), out)
    BY <1>4 DEF BeginOf
  <1> DEFINE b == BeginOf(out)
  <1>6. b = [k \in 1..m |-> IF k = 1 THEN 0 ELSE b[k - 1] + 2 + Len(out[k - 1])]
    BY <1>5 DEF IsBegin
  <1> HIDE DEF b
  <1>7. \A k \in 1..m : b[k] = IF k = 1 THEN 0 ELSE b[k - 1] + 2 + Len(out[k - 1])
    BY <1>6, Zenon
  <1>8. AddsUp(b, out, m)
    <2>1. b[1] = 0
      BY <1>3, <1>7
    <2>2. ASSUME NEW k \in 2..m PROVE b[k] = b[k - 1] + 2 + Len(out[k - 1])
      <3>1. k \in 1..m /\ k # 1
        BY <1>3
      <3>. QED BY <1>7, <3>1
    <2>. QED BY <2>1, <2>2 DEF AddsUp
  <1>9. \A k \in 1..m : b[k] = f[k]
    <2>1. \A k \in 1..(m - 1) : out[k] = out[k]
      OBVIOUS
    <2>. QED BY ONLY <1>1, <1>3, <1>8, <2>1, SumsAgree DEF m
  <1>10. \A k \in 1..m : b[k] \in Nat
    BY <1>1, <1>9
  <1>. QED BY <1>8, <1>10 DEF b

LEMMA BeginIs == Begin = BeginOf(printed)
  BY DEF Begin, BeginOf, IsBegin

(* A payload more leaves the frames before it where they are. *)
LEMMA BeginAppend ==
  ASSUME NEW out \in Seq(Seq(Nat)), NEW x \in Seq(Nat)
  PROVE  /\ \A k \in 1..(Len(out) + 1) : BeginOf(Append(out, x))[k] = BeginOf(out)[k]
         /\ BeginOf(Append(out, x))[Len(out) + 2] = BeginOf(out)[Len(out) + 1] + 2 + Len(x)
  <1> DEFINE more == Append(out, x)
             m == Len(out) + 1
  <1>1. /\ more \in Seq(Seq(Nat)) /\ Len(more) = m /\ m \in Nat /\ more[m] = x
        /\ \A k \in 1..(m - 1) : more[k] = out[k]
    OBVIOUS
  <1>2. AddsUp(BeginOf(out), out, m)
    BY BeginSums
  <1> HIDE DEF more
  <1>3. AddsUp(BeginOf(more), more, m + 1)
    BY <1>1, BeginSums
  <1> HIDE DEF m
  <1>4. AddsUp(BeginOf(more), more, m)
    <2>1. \A k \in 2..m : k \in 2..(m + 1)
      BY <1>1
    <2>. QED BY <1>3, <2>1 DEF AddsUp
  <1>5. \A k \in 1..m : BeginOf(out)[k] = BeginOf(more)[k]
    BY ONLY <1>1, <1>2, <1>4, SumsAgree
  <1>6. m >= 1
    BY DEF m
  <1>7. m + 1 \in 2..(m + 1) /\ (m + 1) - 1 = m /\ m \in 1..m
    BY <1>1, <1>6
  <1>8. BeginOf(more)[m + 1] = BeginOf(more)[m] + 2 + Len(x)
    BY <1>1, <1>3, <1>7 DEF AddsUp
  <1>9. m + 1 = Len(out) + 2
    BY DEF m
  <1>. QED BY <1>5, <1>7, <1>8, <1>9 DEF m, more

-----------------------------------------------------------------------------
(* The steps of binary_frames, one by one.                                 *)

(* What a step that prints nothing leaves as it is. *)
LEMMA SamePrinted ==
  ASSUME FramesInv, printed' = printed, step' # "printed"
  PROVE  /\ NextFrame' = NextFrame /\ Left' = Left /\ NextFrame \in Nat
         /\ printed' \in Seq(Seq(Nat)) /\ PayloadsIntact' /\ InPrinted'
  <1>1. printed \in Seq(Seq(Nat)) /\ PayloadsIntact
    BY DEF FramesInv
  <1>2. Begin' = Begin
    BY DEF Begin
  <1>3. NextFrame' = NextFrame /\ Left' = Left
    BY <1>2 DEF NextFrame, Left
  <1>4. NextFrame \in Nat
    <2>1. Len(printed) + 1 \in 1..(Len(printed) + 1)
      BY <1>1
    <2>. QED BY <1>1, <2>1, BeginSums, BeginIs DEF NextFrame
  <1>5. PayloadsIntact'
    BY <1>1, <1>2 DEF PayloadsIntact
  <1>. QED BY <1>1, <1>3, <1>4, <1>5 DEF InPrinted

LEMMA FramesBegin ==
  ASSUME FramesInit
  PROVE  FramesInv
  <1>1. Opens(CHUNK_SIZE, 0) /\ step = "first" /\ payloadLen = 0 /\ printed = <<>>
    BY DEF FramesInit
  <1>2. CHUNK_SIZE \in Nat /\ 0 \in 0..StreamLen
    BY SourceAssumption, CapacityAssumption
  <1>3. /\ Served /\ Quiet /\ buf.len = 0 /\ buf.pos = 0 /\ outcome = "running"
        /\ StreamPosition = 0
    BY <1>1, <1>2, OpensServed
  <1>4. printed \in Seq(Seq(Nat)) /\ Len(printed) = 0
    BY <1>1
  <1>5. NextFrame = 0
    <2>1. 1 \in 1..(Len(printed) + 1) /\ Len(printed) + 1 = 1
      BY <1>4
    <2>2. AddsUp(BeginOf(printed), printed, Len(printed) + 1)
      BY <1>4, BeginSums
    <2>. QED BY <2>1, <2>2, BeginIs DEF NextFrame, AddsUp
  <1>6. FrameAt(0)
    BY <1>3, <1>5 DEF FrameAt
  <1>7. PayloadsIntact
    BY <1>1, <1>4 DEF PayloadsIntact
  <1>8. FramesVerdict
    BY <1>3 DEF FramesVerdict
  <1>. QED BY <1>1, <1>3, <1>4, <1>6, <1>7, <1>8
           DEF FramesInv, FramesSteps, InFirst, InLength, InPayload, InFilledFirst,
               InFilledLength, InFilledPayload, InPrint, InPrinted, FramesEnd

(* A step of the reader while the program waits for a fill. *)
LEMMA InsideKeepsFrames ==
  ASSUME FramesInv, Inside, UNCHANGED framesVars
  PROVE  FramesInv'
  <1>1. /\ Served /\ Work /\ step' = step /\ outcome' = outcome /\ step \in FramesSteps
        /\ payloadLen' = payloadLen /\ printed' = printed /\ payloadLen \in Nat
    BY DEF FramesInv, Inside, framesVars
  <1>2. Served' /\ ~Quiet
    BY <1>1, WorkServed
  <1>3. /\ step \in {"filled first", "filled length", "filled payload"}
        /\ outcome = "running"
    BY <1>1, <1>2 DEF FramesInv, FramesSteps, InFirst, InLength, InPayload, InPrint, InPrinted,
                      FramesEnd
  <1>4. task.pc = "idle" /\ call.op = "fill_amount" /\ buf.pos = 0 /\ StreamPosition = NextFrame
    BY <1>3 DEF FramesInv, InFilledFirst, InFilledLength, InFilledPayload, Asked, FrameAt
  <1>5. /\ Answered' /\ task'.pc = "idle" /\ call'.op = call.op
        /\ call'.first = call.first /\ call'.amt = call.amt
        /\ buf'.pos = buf.pos /\ buf.len <= buf'.len /\ inner' - buf'.len = inner - buf.len
    BY <1>1, <1>4, FillWork
  <1>6. inner \in Nat /\ buf.len \in Nat /\ inner' \in Nat /\ buf'.len \in Nat
    <2>1. inner' \in Nat /\ WellFormed(buf')
      BY <1>2 DEF Served, ReaderInv, FillInvariant
    <2>. QED BY <1>1, <2>1, Fields, ServedFacts
  <1>7. StreamPosition' = StreamPosition
    <2>1. inner' - (buf'.len - buf'.pos) = inner - (buf.len - buf.pos)
      BY <1>4, <1>5, <1>6
    <2>. QED BY <2>1 DEF StreamPosition, Behind
  <1>8. /\ NextFrame' = NextFrame /\ printed' \in Seq(Seq(Nat)) /\ PayloadsIntact' /\ InPrinted'
    BY <1>1, <1>3, SamePrinted
  <1>9. ASSUME NEW n \in Nat, FrameAt(n) PROVE FrameAt(n)'
    <2>1. n <= buf.len
      BY <1>9 DEF FrameAt
    <2>2. n <= buf'.len
      BY <1>5, <1>6, <2>1
    <2>. QED BY <1>4, <1>5, <1>7, <1>8, <2>2 DEF FrameAt
  <1>10. /\ Asked(1) => Asked(1)'
         /\ Asked(2) => Asked(2)'
         /\ Asked(FrameLen) => Asked(FrameLen)'
    BY <1>1, <1>5 DEF Asked, FrameLen
  <1>11. InFilledFirst' /\ InFilledLength' /\ InFilledPayload'
    BY <1>1, <1>9, <1>10 DEF FramesInv, InFilledFirst, InFilledLength, InFilledPayload
  <1>12. FramesVerdict'
    BY <1>1, <1>3 DEF FramesVerdict
  <1>. QED BY <1>1, <1>2, <1>3, <1>8, <1>11, <1>12
           DEF FramesInv, InFirst, InLength, InPayload, InPrint, FramesEnd

(* The program asks for what is missing of n bytes. *)
LEMMA FillNeeded ==
  ASSUME FramesInv, outcome = "running", NEW n \in Nat, n <= maxCapacity, buf.pos = 0,
         StreamPosition = NextFrame, Fills(FillAmount(Needed(n))), printed' = printed,
         step' # "printed"
  PROVE  /\ Served' /\ Asked(n)'
         /\ \A k \in Nat : k <= buf.len => FrameAt(k)'
  <1>1. /\ Served /\ buf.len \in Nat /\ buf.len <= maxCapacity /\ maxCapacity \in Nat
    BY ServedFacts DEF FramesInv
  <1>2. Needed(n) \in Nat /\ buf.len + Needed(n) <= maxCapacity /\ n <= buf.len + Needed(n)
    BY <1>1 DEF Needed, Larger
  <1> DEFINE amt == Needed(n)
  <1> HIDE DEF amt
  <1>3. amt \in Nat /\ buf.len + amt <= maxCapacity /\ n <= buf.len + amt
        /\ Fills(FillAmount(amt))
    BY <1>2 DEF amt
  <1>4. /\ Served' /\ Answered' /\ inner' = inner
        /\ buf'.len = buf.len /\ buf'.pos = buf.pos
        /\ task'.pc = "idle" /\ call'.op = "fill_amount"
        /\ call'.first = buf.len /\ call'.amt = amt
    BY <1>1, <1>3, FillAmountServed
  <1>5. StreamPosition' = StreamPosition /\ NextFrame' = NextFrame
    BY <1>4, SamePrinted DEF StreamPosition, Behind
  <1>. QED BY <1>3, <1>4, <1>5 DEF Asked, FrameAt

LEMMA Window ==
  ASSUME Served
  PROVE  2 <= maxCapacity /\ CHUNK_SIZE <= maxCapacity /\ maxCapacity \in Nat /\ CHUNK_SIZE \in Nat
  <1>1. maxCapacity \in Capacities /\ CHUNK_SIZE \in Nat /\ CHUNK_SIZE >= 2
    BY ReaderFacts, CapacityAssumption, FramesAssumption DEF Served
  <1>. QED BY <1>1, CapacityChunks

(* An unchanged reader is as ready for the next frame as it was. *)
LEMMA SameFrame ==
  ASSUME FramesInv, UNCHANGED vars, Quiet, printed' = printed, step' # "printed"
  PROVE  /\ Served' /\ Quiet' /\ (Answered => Answered')
         /\ NextFrame' = NextFrame /\ Left' = Left
         /\ printed' \in Seq(Seq(Nat)) /\ PayloadsIntact' /\ InPrinted'
         /\ buf' = buf /\ maxCapacity' = maxCapacity /\ task' = task /\ call' = call
         /\ StreamPosition' = StreamPosition
         /\ \A n \in Nat : FrameAt(n) => FrameAt(n)'
  <1>1. Served' /\ Quiet' /\ StreamPosition' = StreamPosition /\ (Answered => Answered')
    BY SameServed DEF FramesInv
  <1>2. buf' = buf /\ maxCapacity' = maxCapacity /\ task' = task /\ call' = call
    BY DEF vars
  <1>3. /\ NextFrame' = NextFrame /\ Left' = Left
        /\ printed' \in Seq(Seq(Nat)) /\ PayloadsIntact' /\ InPrinted'
    BY SamePrinted
  <1>4. ASSUME NEW n \in Nat, FrameAt(n) PROVE FrameAt(n)'
    BY <1>1, <1>2, <1>3, <1>4 DEF FrameAt
  <1>. QED BY <1>1, <1>2, <1>3, <1>4

LEMMA FillFirstKeeps ==
  ASSUME FramesInv, FillFirst
  PROVE  FramesInv'
  <1>1. /\ Served /\ Quiet /\ outcome = "running" /\ payloadLen' = payloadLen
        /\ payloadLen \in Nat /\ printed' = printed /\ FrameAt(0)
        /\ buf.pos = 0 /\ StreamPosition = NextFrame
    BY DEF FramesInv, FillFirst, At, InFirst, FrameAt, framesVars
  <1>2. buf.len \in Nat
    BY <1>1, ServedFacts
  <1>3. CASE buf.len = 0
    <2>1. /\ Fills(FillAmount(1)) /\ step' = "filled first" /\ outcome' = outcome
      BY <1>3 DEF FillFirst, Goes
    <2>2. Needed(1) = 1 /\ 1 <= maxCapacity
      BY <1>1, <1>3, Window DEF Needed, Larger
    <2>3. Fills(FillAmount(Needed(1)))
      BY <2>1, <2>2
    <2>4. /\ Served' /\ Asked(1)'
          /\ \A k \in Nat : k <= buf.len => FrameAt(k)'
      BY <1>1, <2>1, <2>2, <2>3, FillNeeded
    <2>5. FrameAt(0)'
      BY <1>2, <2>4
    <2>6. printed' \in Seq(Seq(Nat)) /\ PayloadsIntact' /\ InPrinted'
      BY <1>1, <2>1, SamePrinted
    <2>7. FramesVerdict'
      BY <1>1, <2>1 DEF FramesVerdict
    <2>. QED BY <1>1, <2>1, <2>4, <2>5, <2>6, <2>7
             DEF FramesInv, FramesSteps, InFirst, InLength, InPayload,
               InFilledFirst, InFilledLength, InFilledPayload, InPrint, InPrinted, FramesEnd
  <1>4. CASE buf.len # 0
    <2>1. /\ UNCHANGED vars /\ step' = "length" /\ outcome' = outcome
      BY <1>4 DEF FillFirst, Goes
    <2>2. FrameAt(1)
      BY <1>1, <1>2, <1>4 DEF FrameAt
    <2>3. /\ Served' /\ Quiet' /\ printed' \in Seq(Seq(Nat)) /\ PayloadsIntact' /\ InPrinted'
          /\ FrameAt(1)'
      BY <1>1, <2>1, <2>2, SameFrame
    <2>4. FramesVerdict'
      BY <1>1, <2>1 DEF FramesVerdict
    <2>. QED BY <1>1, <2>1, <2>3, <2>4
             DEF FramesInv, FramesSteps, InFirst, InLength, InPayload,
               InFilledFirst, InFilledLength, InFilledPayload, InPrint, InPrinted, FramesEnd
  <1>. QED BY <1>3, <1>4

LEMMA MoreFramesKeeps ==
  ASSUME FramesInv, MoreFrames
  PROVE  FramesInv'
  <1>1. /\ Served /\ Quiet /\ outcome = "running" /\ outcome' = outcome /\ step' = "length"
        /\ payloadLen' = payloadLen /\ payloadLen \in Nat /\ printed' = printed
        /\ FrameAt(0) /\ buf.len > 0 /\ UNCHANGED vars
    BY DEF FramesInv, MoreFrames, Filled, At, Goes, InFilledFirst, framesVars
  <1>2. FrameAt(1)
    BY <1>1, ServedFacts DEF FrameAt
  <1>3. /\ Served' /\ Quiet' /\ printed' \in Seq(Seq(Nat)) /\ PayloadsIntact' /\ InPrinted'
        /\ FrameAt(1)'
    BY <1>1, <1>2, SameFrame
  <1>4. FramesVerdict'
    BY <1>1 DEF FramesVerdict
  <1>. QED BY <1>1, <1>3, <1>4
           DEF FramesInv, FramesSteps, InFirst, InLength, InPayload,
               InFilledFirst, InFilledLength, InFilledPayload, InPrint, InPrinted, FramesEnd

LEMMA FillLengthKeeps ==
  ASSUME FramesInv, FillLength
  PROVE  FramesInv'
  <1>1. /\ Served /\ outcome = "running" /\ outcome' = outcome /\ step' = "filled length"
        /\ payloadLen' = payloadLen /\ payloadLen \in Nat /\ printed' = printed
        /\ FrameAt(1) /\ Fills(FillAmount(Needed(2)))
    BY DEF FramesInv, FillLength, At, Goes, InLength, framesVars
  <1>2. buf.pos = 0 /\ StreamPosition = NextFrame /\ 1 <= buf.len /\ 2 <= maxCapacity
    BY <1>1, Window DEF FrameAt
  <1>3. /\ Served' /\ Asked(2)' /\ FrameAt(1)'
    BY <1>1, <1>2, FillNeeded
  <1>4. printed' \in Seq(Seq(Nat)) /\ PayloadsIntact' /\ InPrinted'
    BY <1>1, SamePrinted
  <1>5. FramesVerdict'
    BY <1>1 DEF FramesVerdict
  <1>. QED BY <1>1, <1>3, <1>4, <1>5
           DEF FramesInv, FramesSteps, InFirst, InLength, InPayload,
               InFilledFirst, InFilledLength, InFilledPayload, InPrint, InPrinted, FramesEnd

LEMMA DecodeLengthKeeps ==
  ASSUME FramesInv, DecodeLength
  PROVE  FramesInv'
  <1>1. /\ Served /\ Quiet /\ outcome = "running" /\ step' = "payload" /\ printed' = printed
        /\ UNCHANGED vars /\ FrameAt(1) /\ buf.len - buf.pos >= 2
    BY DEF FramesInv, DecodeLength, Filled, At, InFilledLength
  <1>2. PICK n \in PayloadLens :
          /\ payloadLen' = n
          /\ IF n + 2 > maxCapacity THEN outcome' = "too long" ELSE UNCHANGED outcome
    BY DEF DecodeLength
  <1>3. n \in Nat
    BY FramesAssumption
  <1>4. FrameAt(2)
    BY <1>1, ServedFacts DEF FrameAt
  <1>5. /\ Served' /\ Quiet' /\ printed' \in Seq(Seq(Nat)) /\ PayloadsIntact' /\ InPrinted'
        /\ FrameAt(2)' /\ maxCapacity' = maxCapacity
    BY <1>1, <1>4, SameFrame
  <1>6. CHUNK_SIZE <= maxCapacity /\ maxCapacity \in Nat /\ CHUNK_SIZE \in Nat
    BY <1>1, Window
  <1>7. FrameLen' = n + 2
    BY <1>2 DEF FrameLen
  <1>8. CASE n + 2 > maxCapacity
    <2>1. outcome' = "too long" /\ FrameLen' > CHUNK_SIZE
      <3>1. n + 2 > CHUNK_SIZE
        BY <1>3, <1>6, <1>8
      <3>2. outcome' = "too long"
        BY <1>2, <1>8
      <3>. QED BY <1>7, <3>1, <3>2
    <2>2. FramesVerdict' /\ FrameFits'
      BY <2>1 DEF FramesVerdict, FrameFits
    <2>. QED BY <1>1, <1>2, <1>3, <1>5, <2>2
             DEF FramesInv, FramesSteps, InFirst, InLength, InPayload,
               InFilledFirst, InFilledLength, InFilledPayload, InPrint, InPrinted, FramesEnd
  <1>9. CASE ~(n + 2 > maxCapacity)
    <2>1. outcome' = "running" /\ FrameLen' <= maxCapacity'
      BY <1>1, <1>2, <1>3, <1>5, <1>6, <1>7, <1>9
    <2>2. FramesVerdict' /\ FrameFits'
      BY <2>1 DEF FramesVerdict, FrameFits
    <2>. QED BY <1>1, <1>2, <1>3, <1>5, <2>2
             DEF FramesInv, FramesSteps, InFirst, InLength, InPayload,
               InFilledFirst, InFilledLength, InFilledPayload, InPrint, InPrinted, FramesEnd
  <1>. QED BY <1>8, <1>9

LEMMA FillPayloadKeeps ==
  ASSUME FramesInv, FillPayload
  PROVE  FramesInv'
  <1>1. /\ Served /\ outcome = "running" /\ outcome' = outcome /\ step' = "filled payload"
        /\ payloadLen' = payloadLen /\ payloadLen \in Nat /\ printed' = printed
        /\ FrameAt(2) /\ Fills(FillAmount(Needed(FrameLen))) /\ FrameLen <= maxCapacity
    BY DEF FramesInv, FillPayload, At, Goes, InPayload, FrameFits, framesVars
  <1>2. buf.pos = 0 /\ StreamPosition = NextFrame /\ 2 <= buf.len
    BY <1>1 DEF FrameAt
  <1> DEFINE n == payloadLen + 2
  <1>3. FrameLen = n /\ FrameLen' = n /\ n \in Nat
    <2>1. payloadLen \in Nat /\ payloadLen' = payloadLen
      BY <1>1
    <2>2. FrameLen = n /\ FrameLen' = n
      BY <2>1 DEF FrameLen
    <2>. QED BY <2>1, <2>2
  <1>4. PICK k \in Nat : k = n
    BY <1>3
  <1>5. n <= maxCapacity /\ Fills(FillAmount(Needed(n)))
    BY <1>1, <1>3
  <1> HIDE DEF n
  <1>6. k <= maxCapacity /\ Fills(FillAmount(Needed(k)))
    BY <1>4, <1>5
  <1>7. /\ Served' /\ Asked(k)' /\ FrameAt(2)'
    BY <1>1, <1>2, <1>6, FillNeeded
  <1>8. Asked(FrameLen)'
    BY <1>3, <1>4, <1>7 DEF Asked
  <1>9. printed' \in Seq(Seq(Nat)) /\ PayloadsIntact' /\ InPrinted'
    BY <1>1, SamePrinted
  <1>10. FramesVerdict'
    BY <1>1 DEF FramesVerdict
  <1>. QED BY <1>1, <1>7, <1>8, <1>9, <1>10
           DEF FramesInv, FramesSteps, InFirst, InLength, InPayload,
               InFilledFirst, InFilledLength, InFilledPayload, InPrint, InPrinted, FramesEnd

LEMMA ConsumeLengthKeeps ==
  ASSUME FramesInv, ConsumeLength
  PROVE  FramesInv'
  <1>1. /\ Served /\ outcome = "running" /\ outcome' = outcome /\ step' = "print"
        /\ payloadLen' = payloadLen /\ payloadLen \in Nat /\ printed' = printed
        /\ FrameAt(2) /\ ConsumeCall(2) /\ FrameLen <= buf.len
    BY DEF FramesInv, ConsumeLength, Filled, At, Goes, InFilledPayload, FrameLen, framesVars
  <1>2. buf.pos = 0 /\ StreamPosition = NextFrame /\ 2 <= buf.len /\ buf.len \in Nat
        /\ inner \in Nat
    BY <1>1, ServedFacts DEF FrameAt
  <1>3. /\ Served' /\ Quiet' /\ inner' = inner /\ buf'.len = buf.len
        /\ (2 <= buf.len - buf.pos => buf'.pos = buf.pos + 2)
    BY <1>1, ConsumeServed
  <1>4. buf'.pos = 2
    BY <1>2, <1>3
  <1>5. /\ printed' \in Seq(Seq(Nat)) /\ PayloadsIntact' /\ InPrinted' /\ NextFrame' = NextFrame
    BY <1>1, SamePrinted
  <1>6. StreamPosition' = NextFrame' + 2
    <2>1. inner' - (buf'.len - buf'.pos) = (inner - (buf.len - buf.pos)) + 2
      BY <1>2, <1>3, <1>4
    <2>2. StreamPosition' = StreamPosition + 2
      BY <2>1, Zenon DEF StreamPosition, Behind
    <2>. QED BY <1>2, <1>5, <2>2
  <1>7. FrameLen' <= buf'.len
    BY <1>1, <1>3 DEF FrameLen
  <1>8. FramesVerdict'
    BY <1>1 DEF FramesVerdict
  <1>. QED BY <1>1, <1>3, <1>4, <1>5, <1>6, <1>7, <1>8
           DEF FramesInv, FramesSteps, InFirst, InLength, InPayload,
               InFilledFirst, InFilledLength, InFilledPayload, InPrint, InPrinted, FramesEnd

LEMMA PrintPayloadKeeps ==
  ASSUME FramesInv, PrintPayload
  PROVE  FramesInv'
  <1>1. /\ Served /\ outcome = "running" /\ outcome' = outcome /\ step' = "printed"
        /\ payloadLen' = payloadLen /\ printed' = Append(printed, Peek(buf, payloadLen))
        /\ buf.pos = 2 /\ FrameLen <= buf.len /\ StreamPosition = NextFrame + 2
        /\ ConsumeCall(payloadLen) /\ PayloadsIntact
    BY DEF FramesInv, PrintPayload, At, Goes, InPrint
  <1>2. payloadLen \in Nat /\ printed \in Seq(Seq(Nat))
    BY DEF FramesInv
  <1>3. /\ buf.len \in Nat /\ inner \in Nat /\ buf.pos = 2 /\ 2 + payloadLen <= buf.len
        /\ StreamPosition = inner - (buf.len - buf.pos)
    BY <1>1, <1>2, ServedFacts DEF FrameLen
  <1>4. NextFrame \in Nat /\ NextFrame = BeginOf(printed)[Len(printed) + 1]
    <2>1. Len(printed) + 1 \in 1..(Len(printed) + 1)
      BY <1>2
    <2>. QED BY <1>2, <2>1, BeginSums, BeginIs DEF NextFrame
  <1> DEFINE x == Peek(buf, payloadLen)
  <1>5. x = Run(NextFrame + 2, payloadLen)
    <2>1. SubSeq(buf.vec, 2 + 1, 2 + payloadLen) = Run((inner - buf.len) + 2, payloadLen)
      BY <1>1, <1>2, <1>3, HeldRun
    <2>2. Smaller(buf.pos + payloadLen, buf.len) = 2 + payloadLen
      BY <1>2, <1>3 DEF Smaller
    <2>3. (inner - buf.len) + 2 = NextFrame + 2
      BY <1>1, <1>3, <1>4
    <2>4. buf.pos + 1 = 2 + 1
      BY <1>3
    <2>. QED BY <2>1, <2>2, <2>3, <2>4 DEF Peek
  <1>6. x \in Seq(Nat) /\ Len(x) = payloadLen
    <2>1. NextFrame + 2 \in Nat
      BY <1>4
    <2>2. Run(NextFrame + 2, payloadLen) \in Seq(Nat)
          /\ Len(Run(NextFrame + 2, payloadLen)) = payloadLen
      BY ONLY <1>2, <2>1, RunBytes
    <2>. QED BY <1>5, <2>2
  <1> HIDE DEF x
  <1>7. /\ printed' = Append(printed, x) /\ printed' \in Seq(Seq(Nat))
        /\ Len(printed') = Len(printed) + 1 /\ Len(printed) \in Nat
        /\ printed'[Len(printed) + 1] = x
        /\ \A k \in 1..Len(printed) : printed'[k] = printed[k]
    BY <1>1, <1>2, <1>6 DEF x
  <1>8. /\ \A k \in 1..(Len(printed) + 1) : Begin'[k] = Begin[k]
        /\ Begin'[Len(printed) + 2] = NextFrame + 2 + payloadLen
    <2>1. Begin' = BeginOf(printed')
      BY DEF Begin, BeginOf, IsBegin
    <2>. QED BY <1>2, <1>4, <1>6, <1>7, <2>1, BeginAppend, BeginIs
  <1>9. NextFrame' = NextFrame + 2 + payloadLen
    <2>1. Len(printed') + 1 = Len(printed) + 2
      BY <1>7
    <2>. QED BY <1>8, <2>1 DEF NextFrame
  <1>10. PayloadsIntact'
    <2>1. ASSUME NEW k \in 1..Len(printed')
          PROVE  printed'[k] = Run(Begin'[k] + 2, Len(printed'[k]))
      <3>1. CASE k = Len(printed) + 1
        <4>1. Begin'[k] = NextFrame
          BY <1>7, <1>8, <3>1 DEF NextFrame
        <4>. QED BY <1>5, <1>6, <1>7, <3>1, <4>1
      <3>2. CASE k # Len(printed) + 1
        <4>1. k \in 1..Len(printed) /\ k \in 1..(Len(printed) + 1)
          BY <1>7, <3>2
        <4>2. printed'[k] = printed[k] /\ Begin'[k] = Begin[k]
          BY <1>7, <1>8, <4>1
        <4>. QED BY <1>1, <4>1, <4>2 DEF PayloadsIntact
      <3>. QED BY <3>1, <3>2
    <2>2. Len(printed'[Len(printed')]) = payloadLen'
      BY <1>1, <1>6, <1>7
    <2>. QED BY <2>1, <2>2 DEF PayloadsIntact
  <1>11. /\ Served' /\ Quiet' /\ inner' = inner /\ buf'.len = buf.len
         /\ (payloadLen <= buf.len - buf.pos => buf'.pos = buf.pos + payloadLen)
    BY <1>1, <1>2, ConsumeServed
  <1>12. StreamPosition' = NextFrame'
    <2>1. buf'.pos = buf.pos + payloadLen
      BY <1>2, <1>3, <1>11
    <2>2. inner' - (buf'.len - buf'.pos) = (inner - (buf.len - buf.pos)) + payloadLen
      BY <1>2, <1>3, <1>11, <2>1
    <2>3. StreamPosition' = StreamPosition + payloadLen
      BY <2>2, Zenon DEF StreamPosition, Behind
    <2>. QED BY <1>1, <1>2, <1>4, <1>9, <2>3
  <1>13. FramesVerdict'
    BY <1>1 DEF FramesVerdict
  <1>. QED BY <1>1, <1>2, <1>7, <1>10, <1>11, <1>12, <1>13
           DEF FramesInv, FramesSteps, InFirst, InLength, InPayload,
               InFilledFirst, InFilledLength, InFilledPayload, InPrint, InPrinted, FramesEnd

LEMMA ReclaimKeeps ==
  ASSUME FramesInv, Reclaim
  PROVE  FramesInv'
  <1>1. /\ Served /\ outcome = "running" /\ outcome' = outcome /\ step' = "first"
        /\ payloadLen' = payloadLen /\ payloadLen \in Nat /\ printed' = printed
        /\ StreamPosition = NextFrame /\ CompactCall
    BY DEF FramesInv, Reclaim, At, Goes, InPrinted, framesVars
  <1>2. buf.len \in Nat /\ buf.pos \in Nat /\ buf.pos <= buf.len /\ inner \in Nat
    BY <1>1, ServedFacts
  <1>3. /\ Served' /\ Quiet' /\ inner' = inner /\ buf'.pos = 0 /\ buf'.len = buf.len - buf.pos
    BY <1>1, CompactServed
  <1>4. /\ printed' \in Seq(Seq(Nat)) /\ PayloadsIntact' /\ InPrinted' /\ NextFrame' = NextFrame
    BY <1>1, SamePrinted
  <1>5. StreamPosition' = NextFrame'
    <2>1. inner' - (buf'.len - buf'.pos) = inner - (buf.len - buf.pos)
      BY <1>2, <1>3
    <2>2. StreamPosition' = StreamPosition
      BY <2>1, Zenon DEF StreamPosition, Behind
    <2>. QED BY <1>1, <1>4, <2>2
  <1>6. FrameAt(0)'
    BY <1>2, <1>3, <1>5 DEF FrameAt
  <1>7. FramesVerdict'
    BY <1>1 DEF FramesVerdict
  <1>. QED BY <1>1, <1>3, <1>4, <1>6, <1>7
           DEF FramesInv, FramesSteps, InFirst, InLength, InPayload,
               InFilledFirst, InFilledLength, InFilledPayload, InPrint, InPrinted, FramesEnd

(* The program has returned, and has not touched its reader. *)
LEMMA FramesReturns ==
  ASSUME FramesInv, NEW result \in {"failed", "done", "no length", "no payload"},
         outcome = "running", Quiet, step # "printed", Return(result), UNCHANGED framesVars,
         result = "done" => Left = 0,
         result = "no length" => Left = 1,
         result = "no payload" => Left \in 2..(FrameLen - 1)
  PROVE  FramesInv'
  <1>1. /\ Served /\ UNCHANGED vars /\ step' = step /\ outcome' = result
        /\ payloadLen' = payloadLen /\ payloadLen \in Nat /\ printed' = printed
        /\ step \in FramesSteps
    BY DEF FramesInv, Return, framesVars
  <1>2. /\ Served' /\ Quiet' /\ (Answered => Answered')
        /\ NextFrame' = NextFrame /\ Left' = Left
        /\ printed' \in Seq(Seq(Nat)) /\ PayloadsIntact' /\ InPrinted'
        /\ buf' = buf /\ maxCapacity' = maxCapacity /\ task' = task /\ call' = call
        /\ StreamPosition' = StreamPosition
        /\ \A n \in Nat : FrameAt(n) => FrameAt(n)'
    BY <1>1, SameFrame
  <1>3. FrameLen' = FrameLen
    BY <1>1 DEF FrameLen
  <1>4. FramesVerdict'
    BY <1>1, <1>2, <1>3 DEF FramesVerdict
  <1>5. /\ Asked(1) => Asked(1)'
        /\ Asked(2) => Asked(2)'
        /\ Asked(FrameLen) => Asked(FrameLen)'
    BY <1>2, <1>3 DEF Asked
  <1>6. (FrameAt(0) => FrameAt(0)') /\ (FrameAt(1) => FrameAt(1)') /\ (FrameAt(2) => FrameAt(2)')
    BY <1>2
  <1>7. InFirst' /\ InLength' /\ InPayload'
    BY <1>1, <1>2, <1>6 DEF FramesInv, InFirst, InLength, InPayload, FrameFits
  <1>8. InFilledFirst' /\ InFilledLength' /\ InFilledPayload'
    BY <1>1, <1>5, <1>6 DEF FramesInv, InFilledFirst, InFilledLength, InFilledPayload
  <1>9. InPrint'
    BY <1>1, <1>2, <1>3 DEF FramesInv, InPrint
  <1>. QED BY <1>1, <1>2, <1>4, <1>7, <1>8, <1>9 DEF FramesInv, FramesEnd

(* A fill that brought less than it was asked for has met the end, and what *)
(* is left of the input is in the buffer.                                   *)
LEMMA ShortFill ==
  ASSUME FramesInv, NEW n \in Nat, Asked(n), FrameAt(0), ~(n <= buf.len),
         call.result \in {"complete", "eof"}
  PROVE  Left = buf.len
  <1>1. Served /\ buf.pos = 0 /\ StreamPosition = NextFrame
    BY DEF FramesInv, FrameAt
  <1>2. /\ buf.len \in Nat /\ inner \in Nat /\ Remaining \in Nat /\ inner + Remaining = StreamLen
        /\ StreamPosition = inner - (buf.len - buf.pos)
    BY <1>1, ServedFacts
  <1>3. call.result # "complete"
    <2>1. call.first \in Nat /\ call.amt \in Nat
      BY <1>1, ReaderFacts, CallFields DEF Served
    <2>2. /\ n <= call.first + call.amt
          /\ call.result = "complete" => call.first + call.amt <= buf.len
      BY DEF Asked, Answered
    <2>. QED BY <1>2, <2>1, <2>2
  <1>4. Remaining = 0
    BY <1>1, <1>3, ServedFacts DEF Verdicts, EofMeansEndOfStream
  <1>5. StreamLen - StreamPosition = buf.len
    BY <1>1, <1>2, <1>4
  <1>. QED BY <1>1, <1>5 DEF Left, NextFrame

LEMMA EndingsKeep ==
  ASSUME FramesInv, NoMoreFrames \/ NoLength \/ NoPayload \/ FrameFailed \/ PrintFailed
  PROVE  FramesInv'
  <1>1. buf.len \in Nat
    BY ServedFacts DEF FramesInv
  <1>2. CASE NoMoreFrames
    <2>1. /\ outcome = "running" /\ Quiet /\ step # "printed" /\ Return("done")
          /\ UNCHANGED framesVars /\ call.result \in {"complete", "eof"} /\ buf.len = 0
          /\ Asked(1) /\ FrameAt(0)
      BY <1>2 DEF NoMoreFrames, Filled, At, FramesInv, InFilledFirst
    <2>2. Left = 0
      BY <2>1, ShortFill
    <2>. QED BY <2>1, <2>2, FramesReturns
  <1>3. CASE NoLength
    <2>1. /\ outcome = "running" /\ Quiet /\ step # "printed" /\ Return("no length")
          /\ UNCHANGED framesVars /\ call.result \in {"complete", "eof"}
          /\ Asked(2) /\ FrameAt(1) /\ buf.len - buf.pos < 2
      BY <1>3 DEF NoLength, Filled, At, FramesInv, InFilledLength
    <2>2. FrameAt(0) /\ buf.len = 1 /\ ~(2 <= buf.len)
      <3>1. 1 <= buf.len /\ buf.pos = 0 /\ StreamPosition = NextFrame /\ buf.len - buf.pos < 2
        BY <2>1 DEF FrameAt
      <3>2. 0 <= buf.len /\ buf.len = 1 /\ ~(2 <= buf.len)
        BY <1>1, <3>1
      <3>. QED BY <3>1, <3>2 DEF FrameAt
    <2>3. Left = 1
      BY <2>1, <2>2, ShortFill
    <2>. QED BY <2>1, <2>3, FramesReturns
  <1>4. CASE NoPayload
    <2>1. /\ outcome = "running" /\ Quiet /\ step # "printed" /\ Return("no payload")
          /\ UNCHANGED framesVars /\ call.result \in {"complete", "eof"}
          /\ Asked(FrameLen) /\ FrameAt(2) /\ buf.len < FrameLen
      BY <1>4 DEF NoPayload, Filled, At, FramesInv, InFilledPayload
    <2>2. payloadLen \in Nat
      BY DEF FramesInv
    <2>3. FrameLen \in Nat
      BY <2>2 DEF FrameLen
    <2>4. FrameAt(0) /\ 2 <= buf.len /\ ~(FrameLen <= buf.len)
      <3>1. 2 <= buf.len /\ buf.pos = 0 /\ StreamPosition = NextFrame /\ buf.len < FrameLen
        BY <2>1 DEF FrameAt
      <3>2. 0 <= buf.len /\ ~(FrameLen <= buf.len)
        BY <1>1, <2>3, <3>1
      <3>. QED BY <3>1, <3>2 DEF FrameAt
    <2>5. PICK n \in Nat : n = FrameLen
      BY <2>3
    <2>6. Asked(n) /\ ~(n <= buf.len)
      BY <2>1, <2>4, <2>5
    <2>7. Left = buf.len
      BY <2>1, <2>4, <2>6, ShortFill
    <2>8. Left \in 2..(FrameLen - 1)
      BY <1>1, <2>3, <2>4, <2>7
    <2>. QED BY <2>1, <2>8, FramesReturns
  <1>5. CASE FrameFailed
    <2>1. /\ outcome = "running" /\ Quiet /\ step # "printed" /\ UNCHANGED framesVars
          /\ call.result \in {"error", "invalid", "panic"}
          /\ Return(IF call.result = "error" THEN "failed" ELSE call.result)
          /\ Answered
      BY <1>5 DEF FrameFailed, At, FramesInv, InFilledFirst, InFilledLength, InFilledPayload, Asked
    <2>2. call.result # "panic"
      BY ReaderFacts DEF FramesInv, Served, FillInvariant, NoPanic
    <2>3. Return("failed")
      BY <2>1, <2>2 DEF Answered
    <2>. QED BY <2>1, <2>3, FramesReturns
  <1>6. CASE PrintFailed
    BY <1>6, FramesReturns DEF PrintFailed, At
  <1>. QED BY <1>2, <1>3, <1>4, <1>5, <1>6

LEMMA FramesHolds ==
  ASSUME FramesInv, FramesNext
  PROVE  FramesInv'
  BY InsideKeepsFrames, FillFirstKeeps, MoreFramesKeeps, FillLengthKeeps, DecodeLengthKeeps,
     FillPayloadKeeps, ConsumeLengthKeeps, PrintPayloadKeeps, ReclaimKeeps, EndingsKeep
     DEF FramesNext

-----------------------------------------------------------------------------
(* One of the two programs runs, and its invariant holds. *)
ExamplesInv == /\ program \in {"binary_frames", "retained_prefix"}
               /\ program = "binary_frames" => FramesInv
               /\ program = "retained_prefix" => PrefixInv

(* The program that does not run does not matter to the other's invariant, *)
(* and a stuttering step matters to neither.                                *)
LEMMA PrefixStutters ==
  ASSUME PrefixInv, UNCHANGED <<vars, step, outcome, prefixVars>>
  PROVE  PrefixInv'
  <1>1. /\ Served /\ UNCHANGED vars /\ step' = step /\ outcome' = outcome
        /\ UNCHANGED prefixVars
    BY DEF PrefixInv
  <1>2. /\ Served' /\ StreamPosition' = StreamPosition /\ (Quiet => Quiet')
        /\ (Answered => Answered') /\ (OneRead => OneRead')
    BY <1>1, SameServed
  <1>3. /\ header' = header /\ body' = body /\ began' = began /\ BodyEnd' = BodyEnd
        /\ Cut' = Cut
    BY <1>1, SameCut
  <1>4. buf' = buf /\ inner' = inner /\ task' = task /\ call' = call
    BY <1>1 DEF vars
  <1>5. InFill' /\ InLook' /\ InTake' /\ Uncopied'
    BY <1>1, <1>2, <1>3, <1>4 DEF PrefixInv, InFill, InLook, InTake, Uncopied, AtStart, IsFirstLine
  <1>6. InCopy' /\ InCopied' /\ PrefixEnd'
    BY <1>1, <1>2, <1>3, <1>4
       DEF PrefixInv, InCopy, InCopied, PrefixEnd, RefusedIsLong, IsFirstLine
  <1>. QED BY <1>1, <1>2, <1>3, <1>5, <1>6 DEF PrefixInv

LEMMA FramesStutter ==
  ASSUME FramesInv, UNCHANGED <<vars, step, outcome, framesVars>>
  PROVE  FramesInv'
  <1>1. /\ Served /\ UNCHANGED vars /\ step' = step /\ outcome' = outcome
        /\ payloadLen' = payloadLen /\ printed' = printed
    BY DEF FramesInv, framesVars
  <1>2. /\ Served' /\ StreamPosition' = StreamPosition /\ (Quiet => Quiet')
        /\ (Answered => Answered')
    BY <1>1, SameServed
  <1>3. buf' = buf /\ task' = task /\ call' = call /\ maxCapacity' = maxCapacity
    BY <1>1 DEF vars
  <1>4. Begin' = Begin
    BY <1>1 DEF Begin
  <1>5. NextFrame' = NextFrame /\ Left' = Left /\ FrameLen' = FrameLen
    BY <1>1, <1>4 DEF NextFrame, Left, FrameLen
  <1>6. InFirst' /\ InLength' /\ InPayload' /\ InPrint' /\ InPrinted'
    BY <1>1, <1>2, <1>3, <1>5
       DEF FramesInv, InFirst, InLength, InPayload, InPrint, InPrinted, FrameAt, FrameFits
  <1>7. InFilledFirst' /\ InFilledLength' /\ InFilledPayload'
    BY <1>1, <1>2, <1>3, <1>5
       DEF FramesInv, InFilledFirst, InFilledLength, InFilledPayload, Asked, FrameAt
  <1>8. PayloadsIntact' /\ FramesVerdict' /\ FramesEnd'
    BY <1>1, <1>2, <1>4, <1>5 DEF FramesInv, PayloadsIntact, FramesVerdict, FramesEnd
  <1>. QED BY <1>1, <1>2, <1>6, <1>7, <1>8 DEF FramesInv

LEMMA ExamplesInvHolds == ExamplesSpec => []ExamplesInv
  <1>1. ExamplesInit => ExamplesInv
    BY FramesBegin, PrefixBegins DEF ExamplesInit, ExamplesInv
  <1>2. ExamplesInv /\ [FramesStep \/ PrefixStep]_allVars => ExamplesInv'
    <2> SUFFICES ASSUME ExamplesInv, [FramesStep \/ PrefixStep]_allVars
                 PROVE  ExamplesInv'
      OBVIOUS
    <2>1. CASE FramesStep
      BY <2>1, FramesHolds DEF FramesStep, ExamplesInv
    <2>2. CASE PrefixStep
      BY <2>2, PrefixHolds DEF PrefixStep, ExamplesInv
    <2>3. CASE UNCHANGED allVars
      <3>1. /\ UNCHANGED <<vars, step, outcome, framesVars>> /\ program' = program
            /\ UNCHANGED <<vars, step, outcome, prefixVars>>
        BY <2>3 DEF allVars
      <3>. QED BY <3>1, FramesStutter, PrefixStutters DEF ExamplesInv
    <2>. QED BY <2>1, <2>2, <2>3
  <1>. QED BY <1>1, <1>2, PTL DEF ExamplesSpec

-----------------------------------------------------------------------------
(***************************************************************************)
(* retained_prefix writes its input, cut once, after the first line: the   *)
(* header that take_consumed gave is that line, and the reads of io::copy, *)
(* from the read-ahead, through refills and past the buffer, give the rest *)
(* in order, whatever fails on the way.                                    *)
(***************************************************************************)
THEOREM HeaderThenBodyHolds == ExamplesSpec => []HeaderThenBody
  <1>1. ExamplesInv => HeaderThenBody
    BY PrefixCuts DEF ExamplesInv, HeaderThenBody
  <1>. QED BY <1>1, ExamplesInvHolds, PTL

(***************************************************************************)
(* retained_prefix says that there is no header only of an input whose     *)
(* first CHUNK_SIZE bytes have no newline: fill_until answers Capped only  *)
(* at max_capacity, Eof only at the end, and overlooks no delimiter.       *)
(***************************************************************************)
THEOREM RefusesOnlyLongHolds == ExamplesSpec => []RefusesOnlyLong
  <1>1. ExamplesInv => RefusesOnlyLong
    BY PrefixCuts DEF ExamplesInv, RefusesOnlyLong
  <1>. QED BY <1>1, ExamplesInvHolds, PTL

(***************************************************************************)
(* Every payload that binary_frames prints is that of the next frame, for  *)
(* every sequence of lengths, though fill_amount appends to a read-ahead   *)
(* that compact has moved to the front.                                    *)
(***************************************************************************)
THEOREM FramesIntactHolds == ExamplesSpec => []FramesIntact
  <1>1. ExamplesInv => FramesIntact
    BY DEF ExamplesInv, FramesIntact, FramesInv
  <1>. QED BY <1>1, ExamplesInvHolds, PTL

(***************************************************************************)
(* What binary_frames returns is true of what is left of its input, and no *)
(* fill that it asks for is refused or panics.                             *)
(***************************************************************************)
THEOREM VerdictIsRightHolds == ExamplesSpec => []VerdictIsRight
  <1>1. ExamplesInv => VerdictIsRight
    BY DEF ExamplesInv, VerdictIsRight, FramesInv
  <1>. QED BY <1>1, ExamplesInvHolds, PTL
-----------------------------------------------------------------------------
(***************************************************************************)
(* The invariant of records.  The buffer begins where the next record      *)
(* does: a fill appends to it, and between the consumption of a record and *)
(* the compact call the consumed bytes are exactly that record.            *)
(***************************************************************************)
AtRecord == /\ recordLen > 0 /\ Front + recordLen \in Delimiters
            /\ \A i \in 1..(recordLen - 1) : Front + i \notin Delimiters

InRecordFill == step = "fill" => Quiet /\ buf.pos = 0

InRecordLook ==
  step = "look" => task.pc = "idle" /\ call.op = "fill_until" /\ Answered /\ buf.pos = 0

InRecordPrint == step = "print" => Quiet /\ buf.pos = recordLen /\ AtRecord

RecordsInv == /\ Served /\ maxCapacity = MaxCapacity(RECORD_CAPACITY, NoLimit)
              /\ recordLen \in Nat
              /\ step \in {"fill", "look", "print"}
              /\ InRecordFill /\ InRecordLook /\ InRecordPrint
              /\ outcome # "running" => Quiet

LEMMA UnprintedIsFront ==
  ASSUME RecordsInv
  PROVE  Unprinted = Front /\ Front \in Nat
  <1>1. /\ Served /\ recordLen \in Nat /\ step \in {"fill", "look", "print"}
        /\ step \in {"fill", "look"} => buf.pos = 0
        /\ step = "print" => buf.pos = recordLen
    BY DEF RecordsInv, InRecordFill, InRecordLook, InRecordPrint
  <1>2. /\ ReaderInv /\ Retained /\ lost = {}
        /\ inner \in Nat /\ buf.len \in Nat /\ buf.pos \in Nat
    BY <1>1, ServedFacts
  <1>3. LogicalPosition = inner - (buf.len - buf.pos)
    BY <1>2, Ahead
  <1>4. Front \in Nat
    BY <1>1, ServedPosition DEF Front
  <1>5. CASE step = "print"
    <2>1. buf.pos = recordLen
      BY <1>1, <1>5
    <2>2. LogicalPosition - recordLen = inner - buf.len
      BY <1>1, <1>2, <1>3, <2>1
    <2>. QED BY <1>4, <1>5, <2>2 DEF Unprinted, Front
  <1>6. CASE step # "print"
    <2>1. buf.pos = 0
      BY <1>1, <1>6
    <2>2. LogicalPosition = inner - buf.len
      BY <1>2, <1>3, <2>1
    <2>. QED BY <1>4, <1>6, <2>2 DEF Unprinted, Front
  <1>. QED BY <1>5, <1>6

-----------------------------------------------------------------------------
(* The steps of records, one by one.                                       *)
LEMMA RecordsBegin ==
  ASSUME RecordsInit
  PROVE  RecordsInv /\ outcome = "running" /\ Front \in 0..StreamLen
  <1>1. PICK p \in 0..StreamLen : /\ Opens(RECORD_CAPACITY, p)
                                  /\ step = "fill" /\ recordLen = 0
    BY DEF RecordsInit
  <1>2. RECORD_CAPACITY \in Nat /\ p \in Nat /\ maxCapacity = MaxCapacity(RECORD_CAPACITY, NoLimit)
    BY <1>1, RecordAssumption, SourceAssumption DEF Opens
  <1>3. /\ Served /\ Quiet /\ buf.len = 0 /\ buf.pos = 0 /\ inner = p /\ outcome = "running"
    BY <1>1, <1>2, OpensServed
  <1>4. Front = p
    BY <1>2, <1>3 DEF Front
  <1>. QED BY <1>1, <1>2, <1>3, <1>4 DEF RecordsInv, InRecordFill, InRecordLook, InRecordPrint

(* A step that leaves the reader and the locals alone.                     *)
LEMMA RecordsRest ==
  ASSUME RecordsInv, UNCHANGED <<vars, step, recordLen>>, outcome' # "running" => outcome' = outcome \/ Quiet
  PROVE  RecordsInv' /\ Front' = Front
  <1>1. Served /\ UNCHANGED vars /\ step' = step /\ recordLen' = recordLen
    BY DEF RecordsInv
  <1>2. Served' /\ (Quiet => Quiet') /\ (Answered => Answered')
    BY <1>1, SameServed
  <1>3. buf' = buf /\ inner' = inner /\ task' = task /\ call' = call /\ maxCapacity' = maxCapacity
    BY <1>1 DEF vars
  <1>4. Front' = Front
    BY <1>3 DEF Front
  <1>5. AtRecord' = AtRecord
    BY <1>1, <1>4 DEF AtRecord
  <1>. QED BY <1>1, <1>2, <1>3, <1>4, <1>5
           DEF RecordsInv, InRecordFill, InRecordLook, InRecordPrint

LEMMA InsideKeepsRecords ==
  ASSUME RecordsInv, Inside, UNCHANGED recordsVars
  PROVE  RecordsInv' /\ Front' = Front /\ records' = records /\ outcome' = outcome
  <1>1. /\ Served /\ Work /\ step' = step /\ outcome' = outcome /\ recordLen' = recordLen
        /\ records' = records /\ recordLen \in Nat /\ step \in {"fill", "look", "print"}
    BY DEF RecordsInv, Inside, recordsVars
  <1>2. Served' /\ maxCapacity' = maxCapacity /\ ~Quiet
    BY <1>1, WorkServed
  <1>3. step = "look" /\ outcome = "running"
    BY <1>1, <1>2 DEF RecordsInv, InRecordFill, InRecordPrint
  <1>4. task.pc = "idle" /\ call.op = "fill_until" /\ buf.pos = 0
    BY <1>3 DEF RecordsInv, InRecordLook
  <1>5. /\ Answered' /\ task'.pc = "idle" /\ call'.op = call.op
        /\ buf'.pos = buf.pos /\ inner' - buf'.len = inner - buf.len
    BY <1>1, <1>4, FillWork
  <1>6. Front' = Front
    BY <1>5 DEF Front
  <1>. QED BY <1>1, <1>2, <1>3, <1>4, <1>5, <1>6
           DEF RecordsInv, InRecordFill, InRecordLook, InRecordPrint

LEMMA FillRecordKeeps ==
  ASSUME RecordsInv, FillRecord
  PROVE  RecordsInv' /\ Front' = Front /\ records' = records /\ outcome' = outcome
  <1>1. /\ Served /\ Fills(FillUntil) /\ step' = "look" /\ buf.pos = 0 /\ recordLen \in Nat
        /\ outcome = "running" /\ outcome' = outcome /\ recordLen' = recordLen
        /\ records' = records
    BY DEF RecordsInv, FillRecord, At, Goes, InRecordFill, recordsVars
  <1>2. /\ Served' /\ Answered' /\ buf' = buf /\ inner' = inner /\ maxCapacity' = maxCapacity
        /\ task'.pc = "idle" /\ call'.op = "fill_until"
    BY <1>1, FillUntilServed
  <1>3. Front' = Front
    BY <1>2 DEF Front
  <1>. QED BY <1>1, <1>2, <1>3 DEF RecordsInv, InRecordFill, InRecordLook, InRecordPrint

LEMMA ConsumeRecordKeeps ==
  ASSUME RecordsInv, ConsumeRecord
  PROVE  RecordsInv' /\ Front' = Front /\ records' = records /\ outcome' = outcome
  <1>1. /\ Served /\ step' = "print" /\ buf.pos = 0 /\ outcome = "running"
        /\ outcome' = outcome /\ records' = records
    BY DEF RecordsInv, ConsumeRecord, Looking, At, Goes, InRecordLook
  <1>2. PICK n \in Newlines : /\ \A i \in Newlines : n <= i
                              /\ ConsumeCall(n) /\ recordLen' = n
    BY DEF ConsumeRecord
  <1>3. buf.len \in Nat
    BY <1>1, ServedFacts
  <1>4. Newlines = {i \in 1..buf.len : Front + i \in Delimiters}
    BY <1>1, FrontNewlines
  <1>5. n \in 1..buf.len /\ Front + n \in Delimiters
    BY <1>2, <1>4
  <1>6. n \in Nat /\ n > 0 /\ n <= buf.len - buf.pos
    BY <1>1, <1>3, <1>5
  <1>7. /\ Served' /\ Quiet' /\ inner' = inner /\ maxCapacity' = maxCapacity
        /\ buf'.len = buf.len /\ buf'.pos = buf.pos + n
    BY <1>1, <1>2, <1>6, ConsumeServed
  <1>8. buf'.pos = n
    BY <1>1, <1>6, <1>7
  <1>9. Front' = Front
    BY <1>7 DEF Front
  <1>10. ASSUME NEW i \in 1..(n - 1) PROVE Front + i \notin Delimiters
    <2>1. i \in 1..buf.len /\ ~(n <= i)
      BY <1>3, <1>5
    <2>. QED BY <1>2, <1>4, <2>1
  <1>11. AtRecord'
    BY <1>2, <1>5, <1>6, <1>9, <1>10 DEF AtRecord
  <1>. QED BY <1>1, <1>2, <1>6, <1>7, <1>8, <1>9, <1>11
           DEF RecordsInv, InRecordFill, InRecordLook, InRecordPrint

(* The bytes that peek_behind gives are the record; compact drops them.     *)
LEMMA PrintRecordKeeps ==
  ASSUME RecordsInv, PrintRecord
  PROVE  /\ RecordsInv' /\ outcome = "running" /\ outcome' = outcome
         /\ AtRecord /\ Front' = Front + recordLen
         /\ recordLen \in Nat /\ recordLen <= maxCapacity /\ Front + recordLen <= StreamLen
         /\ records' = Append(records, Run(Front, recordLen))
  <1>1. /\ Served /\ recordLen \in Nat /\ buf.pos = recordLen /\ AtRecord /\ CompactCall
        /\ step' = "fill" /\ outcome = "running" /\ outcome' = outcome
        /\ recordLen' = recordLen
        /\ records' = Append(records, PeekBehind(buf, recordLen))
    BY DEF RecordsInv, PrintRecord, At, Goes, InRecordPrint
  <1>2. /\ inner \in Nat /\ buf.len \in Nat /\ buf.pos <= buf.len /\ inner <= StreamLen
        /\ buf.len <= maxCapacity /\ maxCapacity \in Nat /\ StreamLen \in Nat
    BY <1>1, ServedFacts
  <1>3. /\ Served' /\ Quiet' /\ inner' = inner /\ maxCapacity' = maxCapacity
        /\ buf'.pos = 0 /\ buf'.len = buf.len - buf.pos
    BY <1>1, CompactServed
  <1>4. inner' - buf'.len = (inner - buf.len) + recordLen
    BY <1>1, <1>2, <1>3
  <1>5. Front' = Front + recordLen
    BY <1>4 DEF Front
  <1>6. recordLen <= maxCapacity /\ (inner - buf.len) + recordLen <= StreamLen
    BY <1>1, <1>2
  <1>7. PeekBehind(buf, recordLen) = Run(Front, recordLen)
    <2>1. Served /\ recordLen \in Nat /\ 0 + recordLen <= buf.len
      BY <1>1, <1>2
    <2>2. SubSeq(buf.vec, 0 + 1, 0 + recordLen) = Run((inner - buf.len) + 0, recordLen)
      BY ONLY <2>1, 0 \in Nat, HeldRun
    <2>3. /\ 0 + recordLen = recordLen /\ (inner - buf.len) + 0 = inner - buf.len
          /\ (IF recordLen <= buf.pos THEN buf.pos - recordLen ELSE 0) + 1 = 0 + 1
      BY <1>1, <1>2
    <2>. QED BY <1>1, <2>2, <2>3 DEF PeekBehind, Front
  <1>8. RecordsInv'
    BY <1>1, <1>3 DEF RecordsInv, InRecordFill, InRecordLook, InRecordPrint
  <1>. QED BY <1>1, <1>5, <1>6, <1>7, <1>8 DEF Front

(* A step that ends the program. *)
LEMMA RecordsReturns ==
  ASSUME RecordsInv, NEW result, Quiet, Return(result), UNCHANGED recordsVars
  PROVE  RecordsInv' /\ Front' = Front /\ records' = records /\ outcome' = result
  BY RecordsRest DEF Return, recordsVars

LEMMA RecordsInvHolds == RecordsSpec => []RecordsInv
  <1>1. RecordsInit => RecordsInv
    BY RecordsBegin
  <1>2. RecordsInv /\ [RecordsNext]_recordsAll => RecordsInv'
    <2> SUFFICES ASSUME RecordsInv, [RecordsNext]_recordsAll PROVE RecordsInv'
      OBVIOUS
    <2>1. CASE Inside /\ UNCHANGED recordsVars
      BY <2>1, InsideKeepsRecords
    <2>2. CASE FillRecord
      BY <2>2, FillRecordKeeps
    <2>3. CASE RecordFailed \/ EndOfInput \/ NoNewline \/ WriteFailed
      BY <2>3, RecordsReturns
         DEF RecordFailed, EndOfInput, NoNewline, WriteFailed, LookFailed, Looking, At
    <2>4. CASE ConsumeRecord
      BY <2>4, ConsumeRecordKeeps
    <2>5. CASE PrintRecord
      BY <2>5, PrintRecordKeeps
    <2>6. CASE UNCHANGED recordsAll
      BY <2>6, RecordsRest DEF recordsAll, recordsVars
    <2>. QED BY <2>1, <2>2, <2>3, <2>4, <2>5, <2>6 DEF RecordsNext
  <1>. QED BY <1>1, <1>2, PTL DEF RecordsSpec

-----------------------------------------------------------------------------
(* Every step of records is a step of Splitting, or invisible there.        *)
LEMMA DeliversRecord ==
  ASSUME RecordsInv, PrintRecord, Unprinted = Front, Unprinted' = Front'
  PROVE  Split!Next
  <1>1. /\ outcome = "running" /\ outcome' = outcome /\ AtRecord
        /\ Front' = Front + recordLen /\ recordLen \in Nat /\ recordLen <= maxCapacity
        /\ Front + recordLen <= StreamLen /\ records' = Append(records, Run(Front, recordLen))
    BY PrintRecordKeeps
  <1>2. maxCapacity = MaxCapacity(RECORD_CAPACITY, NoLimit) /\ Front \in Nat /\ StreamLen \in Nat
    BY UnprintedIsFront, SourceAssumption DEF RecordsInv
  <1> DEFINE e == Front + recordLen
  <1>3. recordLen > 0
    BY <1>1 DEF AtRecord
  <1>4. e \in (Front + 1)..StreamLen /\ e > Front /\ e - Front = recordLen
    BY <1>1, <1>2, <1>3
  <1>5. ASSUME NEW d \in Delimiters, d > Front PROVE e <= d
    <2>1. d \in Nat
      BY SourceAssumption
    <2>2. SUFFICES ASSUME ~(e <= d) PROVE FALSE
      OBVIOUS
    <2>3. d - Front \in 1..(recordLen - 1) /\ Front + (d - Front) = d
      BY <1>1, <1>2, <1>5, <2>1, <2>2
    <2>4. \A i \in 1..(recordLen - 1) : Front + i \notin Delimiters
      BY <1>1 DEF AtRecord
    <2>. QED BY <2>3, <2>4
  <1>6. Split!IsRecord(e)
    <2>1. e \in Delimiters
      BY <1>1 DEF AtRecord
    <2>. QED BY <1>4, <1>5, <2>1 DEF Split!IsRecord
  <1>7. [i \in 1..(e - Front) |-> Front + i] = Run(Front, recordLen)
    BY <1>4 DEF Run
  <1> HIDE DEF e
  <1>8. Front' = e
    BY <1>1 DEF e
  <1>9. Split!Deliver
    BY <1>1, <1>2, <1>4, <1>6, <1>7, <1>8 DEF Split!Deliver
  <1>. QED BY <1>1, <1>9 DEF Split!Next

(* The reasons that the program gives are true of what is left. *)
LEMMA RefusesRecord ==
  ASSUME RecordsInv, NoNewline, Unprinted = Front, Unprinted' = Front'
  PROVE  Split!Next
  <1> DEFINE reason == IF buf.len = maxCapacity THEN "too long" ELSE "unterminated"
  <1>1. /\ Served /\ Quiet /\ buf.pos = 0 /\ Answered /\ call.op = "fill_until"
        /\ call.result \in {"complete", "eof", "capped"} /\ outcome = "running"
        /\ Return(reason) /\ UNCHANGED recordsVars
        /\ Available # <<>> /\ Newlines = {}
        /\ maxCapacity = MaxCapacity(RECORD_CAPACITY, NoLimit)
    BY DEF RecordsInv, NoNewline, Looking, At, InRecordLook
  <1> HIDE DEF reason
  <1>2. Front' = Front /\ records' = records /\ outcome' = reason
    BY <1>1, RecordsReturns
  <1>3. /\ \A i \in 1..buf.len : Front + i \notin Delimiters
        /\ inner = StreamLen \/ buf.len = maxCapacity
    BY <1>1, NothingFound
  <1>4. /\ inner \in Nat /\ buf.len \in Nat /\ inner <= StreamLen /\ StreamLen \in Nat
        /\ buf.len <= maxCapacity /\ maxCapacity \in Nat
    BY <1>1, ServedFacts
  <1>5. Front \in Nat /\ Front = inner - buf.len
    BY UnprintedIsFront DEF Front
  <1>6. buf.len > 0
    <2>1. Available \in Seq(Nat) /\ Len(Available) = buf.len
      <3>1. StreamPosition \in Nat /\ buf.len - buf.pos \in Nat
        <4>1. StreamPosition \in Nat
          BY <1>1, ServedPosition
        <4>2. buf.pos = 0 /\ buf.len \in Nat
          BY <1>1, <1>4
        <4>3. buf.len - buf.pos \in Nat
          BY ONLY <4>2
        <4>. QED BY <4>1, <4>3
      <3>2. Available = Run(StreamPosition, buf.len - buf.pos)
        BY <1>1, HeldUnconsumed DEF Available
      <3>3. Run(StreamPosition, buf.len - buf.pos) \in Seq(Nat)
        BY ONLY <3>1, RunBytes
      <3>. QED BY <1>1, <3>2, <3>3, FrontNewlines
    <2>2. Len(Available) # 0
      BY <1>1, <2>1, EmptySeq
    <2>. QED BY <1>4, <2>1, <2>2
  <1>7. ASSUME NEW e \in (Front + 1)..inner PROVE e \notin Delimiters
    <2>1. e - Front \in 1..buf.len /\ Front + (e - Front) = e
      BY <1>4, <1>5
    <2>. QED BY <1>3, <2>1
  <1> USE DEF reason
  <1>8. CASE buf.len = maxCapacity
    <2>1. StreamLen - Front >= maxCapacity /\ Front + maxCapacity = inner
      BY <1>4, <1>5, <1>8
    <2>2. Split!TooLong
      BY <1>1, <1>2, <1>7, <1>8, <2>1 DEF Split!TooLong, Split!Stop
    <2>. QED BY <1>1, <2>2 DEF Split!Next
  <1>9. CASE buf.len # maxCapacity
    <2>1. inner = StreamLen
      BY <1>3, <1>9
    <2>2. StreamLen - Front \in 1..(maxCapacity - 1)
      BY <1>4, <1>5, <1>6, <1>9, <2>1
    <2>3. Split!Unterminated
      BY <1>1, <1>2, <1>7, <1>9, <2>1, <2>2 DEF Split!Unterminated, Split!Stop
    <2>. QED BY <1>1, <2>3 DEF Split!Next
  <1>. QED BY <1>8, <1>9

LEMMA EndsWithInput ==
  ASSUME RecordsInv, EndOfInput, Unprinted = Front, Unprinted' = Front'
  PROVE  Split!Next
  <1>1. /\ Served /\ Quiet /\ buf.pos = 0 /\ Answered /\ call.op = "fill_until"
        /\ call.result \in {"complete", "eof", "capped"} /\ outcome = "running"
        /\ Return("done") /\ UNCHANGED recordsVars /\ Available = <<>>
    BY DEF RecordsInv, EndOfInput, Looking, At, InRecordLook
  <1>2. Front' = Front /\ records' = records /\ outcome' = "done"
    BY <1>1, RecordsReturns
  <1>3. buf.len = 0
    BY <1>1, FrontNewlines
  <1>4. Newlines = {}
    BY <1>1, <1>3, FrontNewlines
  <1>5. inner = StreamLen \/ buf.len = maxCapacity
    BY <1>1, <1>4, NothingFound
  <1>6. maxCapacity > 0
    <2>1. maxCapacity \in Capacities /\ CHUNK_SIZE \in Nat /\ CHUNK_SIZE > 0
      BY <1>1, ReaderFacts, CapacityAssumption DEF Served
    <2>. QED BY <2>1, CapacityChunks, ServedFacts
  <1>7. Front = StreamLen
    <2>1. inner \in Nat /\ inner = StreamLen
      BY <1>1, <1>3, <1>5, <1>6, ServedFacts
    <2>. QED BY <1>3, <2>1 DEF Front
  <1>8. Split!Finish
    BY <1>2, <1>7 DEF Split!Finish, Split!Stop
  <1>. QED BY <1>1, <1>8 DEF Split!Next

LEMMA RecordsStep ==
  ASSUME RecordsInv, [RecordsNext]_recordsAll, Unprinted = Front, Unprinted' = Front'
  PROVE  [Split!Next]_(Split!vars)
  <1>1. CASE (Inside /\ UNCHANGED recordsVars) \/ FillRecord \/ ConsumeRecord
    <2>1. Front' = Front /\ records' = records /\ outcome' = outcome
      BY <1>1, InsideKeepsRecords, FillRecordKeeps, ConsumeRecordKeeps
    <2>. QED BY <2>1 DEF Split!vars
  <1>2. CASE RecordFailed \/ WriteFailed
    <2>1. /\ Quiet /\ Return("failed") /\ UNCHANGED recordsVars /\ outcome = "running"
      BY <1>2 DEF RecordFailed, WriteFailed, LookFailed, At
    <2>2. Front' = Front /\ records' = records /\ outcome' = "failed"
      BY <2>1, RecordsReturns
    <2>. QED BY <2>1, <2>2 DEF Split!Next, Split!Stop
  <1>3. CASE UNCHANGED recordsAll
    <2>1. UNCHANGED <<vars, step, recordLen>> /\ outcome' = outcome /\ records' = records
      BY <1>3 DEF recordsAll, recordsVars
    <2>2. Front' = Front
      BY <2>1, RecordsRest
    <2>. QED BY <2>1, <2>2 DEF Split!vars
  <1>. QED BY <1>1, <1>2, <1>3, DeliversRecord, RefusesRecord, EndsWithInput DEF RecordsNext

(***************************************************************************)
(* records splits its input, for every window, source and set of newlines: *)
(* what it prints are the records of the input, whole, in order and none   *)
(* left out, though they are read from behind the cursor of a buffer that  *)
(* also holds the read-ahead, and the reason it gives for stopping is true *)
(* of what it has not printed.                                             *)
(***************************************************************************)
THEOREM SplitsItsInputHolds == RecordsSpec => SplitsItsInput
  <1>1. RecordsInit => Split!Init
    <2> SUFFICES ASSUME RecordsInit PROVE Split!Init
      OBVIOUS
    <2>1. RecordsInv /\ outcome = "running" /\ Front \in 0..StreamLen
      BY RecordsBegin
    <2>2. Unprinted = Front /\ records = <<>>
      BY <2>1, UnprintedIsFront DEF RecordsInit
    <2>. QED BY <2>1, <2>2 DEF Split!Init
  <1>2. RecordsInv => Unprinted = Front
    BY UnprintedIsFront
  <1>3. /\ RecordsInv /\ Unprinted = Front /\ (Unprinted = Front)'
        /\ [RecordsNext]_recordsAll
        => [Split!Next]_(Split!vars)
    BY RecordsStep
  <1>. QED BY <1>1, <1>2, <1>3, RecordsInvHolds, PTL DEF RecordsSpec, SplitsItsInput, Split!Spec
=============================================================================
