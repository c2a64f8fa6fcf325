------------------------------- MODULE Reader -------------------------------
(***************************************************************************)
(* strata_reader::Reader (src/reader.rs): a Buffer, a capacity that it may *)
(* not outgrow, and a seekable source.  The client calls the methods of    *)
(* Read, BufRead, Seek and DynamicRead and the inherent ones in any order. *)
(* The fills of DynamicRead are those of BufferFill; a read through the    *)
(* standard traits is a task that may itself run one of them.              *)
(***************************************************************************)
EXTENDS BufferFill, FiniteSets

CONSTANTS
  DEFAULT_MAX_CAPACITY,   (* 4096 chunks in the code.                       *)
  I64_MIN,                (* i64::MIN, the least offset of a seek.          *)
  MAX_POSITION,           (* The greatest position the source can be at.    *)
  Settings,               (* The capacities given to the builder, NoLimit   *)
                          (* for a setting that is not given.               *)
  Requests,               (* The lengths the client reads, fills, consumes. *)
  Positions,              (* The absolute positions it seeks to.            *)
  Offsets                 (* The relative ones.                             *)

ASSUME ReaderAssumption ==
  /\ DEFAULT_MAX_CAPACITY \in Capacities
  /\ I64_MIN \in Int /\ I64_MIN < 0
  /\ MAX_POSITION \in Nat /\ StreamLen <= MAX_POSITION
  /\ Settings \subseteq Nat \cup {NoLimit}
  /\ Requests \subseteq Nat
  /\ Positions \subseteq 0..MAX_POSITION
  /\ Offsets \subseteq {o \in Int : I64_MIN <= o}

VARIABLES
  maxCapacity,  (* Reader::max_capacity                                     *)
  task          (* the call of a standard trait in progress, or the last    *)
                (* one, with the bytes it has given to the client           *)

vars == <<buf, inner, lost, call, maxCapacity, task>>

Reads == {"read", "read_exact", "fill_buf", "read_to_end", "read_to_string"}
Moves == {"consume", "clear", "discard", "take_buffer", "seek", "seek_relative"}

TaskType == [pc : {"idle", "loop", "filling"}, op : Reads \cup Moves \cup {"other"},
             want : Nat, got : Seq(Nat),
             result : {"none", "ok", "eof", "invalid", "error"}]

Task(op, want) == [pc |-> "loop", op |-> op, want |-> want, got |-> <<>>, result |-> "none"]
Ended(t, result) == [t EXCEPT !.pc = "idle", !.result = result]

(* Nothing is running: the client may call. *)
Quiet == Idle /\ task.pc = "idle"

(***************************************************************************)
(* ReaderBuilder::build, from the two optional settings.                   *)
(***************************************************************************)
InitialBuffer(initial) == IF initial = NoLimit THEN NewBuffer ELSE WithCapacity(initial)

MaxCapacity(max, initial) ==
  Larger(IF max = NoLimit THEN DEFAULT_MAX_CAPACITY ELSE CapUp(max),
         InitialBuffer(initial).cap)

Init == \E initial, max \in Settings :
          /\ buf = InitialBuffer(initial)
          /\ maxCapacity = MaxCapacity(max, initial)
          /\ inner = 0
          /\ lost = {}
          /\ call = NoCall
          /\ task = Ended(Task("other", 0), "ok")

-----------------------------------------------------------------------------
(* A method that runs to its end at once: it leaves the buffer b, the       *)
(* source at position p, and what t says for the client.                    *)
Does(b, p, t) == /\ Quiet
                 /\ buf' = b
                 /\ inner' = p
                 /\ task' = t
                 /\ call' = NoCall
                 /\ UNCHANGED maxCapacity

Manages(op, b) == Does(b, inner, Ended(Task(op, 0), "ok")) /\ UNCHANGED lost

ShrinkCall       == Manages("other", Shrink(buf))
CompactCall      == Manages("other", Compact(buf))
ClearCall        == Manages("clear", Clear(buf))
DiscardCall      == Manages("discard", Discard(buf))
TakeBufferCall   == Manages("take_buffer", NewBuffer)
TakeConsumedCall == Manages("other", KeptPart(buf))
ConsumeCall(amt) == buf.pos + amt <= USIZE_MAX /\ Manages("consume", Consume(buf, amt))

(* Through get_mut the client reads n bytes of the source itself.          *)
GetMutCall(n) ==
  /\ n \in 1..Remaining
  /\ Does(buf, inner + n, Ended(Task("other", 0), "ok"))
  /\ lost' = lost \cup (inner + 1)..(inner + n)

(***************************************************************************)
(* The client takes the reader apart, keeps what the buffer held, and      *)
(* builds another reader around the source.                                *)
(***************************************************************************)
IntoPartsCall(initial, max) ==
  /\ Quiet
  /\ buf' = InitialBuffer(initial)
  /\ maxCapacity' = MaxCapacity(max, initial)
  /\ task' = Ended(Task("take_buffer", 0), "ok")
  /\ call' = NoCall
  /\ UNCHANGED <<inner, lost>>

-----------------------------------------------------------------------------
(* The fills of DynamicRead and the inherent ones.  What Buffer would      *)
(* refuse is never asked of it: max_capacity is a supported capacity.      *)
(* Fault: the bytes that are already buffered are not counted. *)
ExceedsMax_IgnoresData(amt) == amt > maxCapacity

ExceedsMax(amt) == amt > (IF buf.len <= maxCapacity THEN maxCapacity - buf.len ELSE 0)

(* ensure_fill_within_max_capacity answers InvalidInput. *)
FillRefused(amt) ==
  /\ Idle
  /\ ExceedsMax(amt)
  /\ call' = Returned(Called(buf, "fill_amount", amt, NoLimit), "invalid")
  /\ UNCHANGED <<buf, inner, lost>>

FillOnce     == StartFill("fill", NoLimit)
FillWhile    == StartFill("fill_while", maxCapacity)
FillToEnd    == StartFill("fill_all", maxCapacity)
FillUntil    == StartFill("fill_until", maxCapacity)
FillUntilStr == StartFill("fill_until_str", maxCapacity)

FillAmount(amt) == FillRefused(amt) \/ (~ExceedsMax(amt) /\ StartFillAmount(amt))

FillExact(amt) ==
  \/ FillRefused(amt)
  \/ /\ ~ExceedsMax(amt)
     /\ \/ FillExactDone(amt)
        \/ \E n \in 0..amt : FillExactFailed(amt, n, "eof") \/ FillExactFailed(amt, n, "error")

Fills(start) == Quiet /\ start /\ task' = Ended(Task("other", 0), "ok") /\ UNCHANGED maxCapacity

FillCall == \/ Fills(FillOnce) \/ Fills(FillWhile) \/ Fills(FillToEnd)
            \/ Fills(FillUntil) \/ Fills(FillUntilStr)
            \/ \E amt \in Requests : Fills(FillAmount(amt)) \/ Fills(FillExact(amt))

-----------------------------------------------------------------------------
(* Read and BufRead.                                                       *)
Exhausted == buf.pos >= buf.len
Wanted    == task.want - Len(task.got)

(* The n bytes of the source that follow position p. *)
Run(p, n) == [i \in 1..n |-> p + i]

(* read, read_vectored (of that many bytes in all), fill_buf, read_exact.  *)
StartRead(op, want) ==
  /\ op = "read_exact" => want > buf.len - buf.pos
  /\ Does(buf, inner, Task(op, want))
  /\ UNCHANGED lost

(* read_exact of bytes that are all in the buffer. *)
ReadExactHeld(want) ==
  /\ want <= buf.len - buf.pos
  /\ Does(Consume(buf, want), inner,
          [Ended(Task("read_exact", want), "ok") EXCEPT !.got = SubSeq(Unconsumed(buf), 1, want)])
  /\ UNCHANGED lost

(* Fault: read_exact takes Ok(0) for a reason to try again. *)
Received_TriesAgain(bytes) ==
  LET t == [task EXCEPT !.got = @ \o bytes, !.pc = "loop"]
  IN  IF t.op # "read_exact" \/ Len(t.got) = t.want THEN Ended(t, "ok") ELSE t

(***************************************************************************)
(* One read of the loop of read_exact, or the only one of the others, gave *)
(* the client those bytes.                                                 *)
(***************************************************************************)
Received(bytes) ==
  LET t == [task EXCEPT !.got = @ \o bytes, !.pc = "loop"]
  IN  CASE t.op # "read_exact" \/ Len(t.got) = t.want -> Ended(t, "ok")
        [] t.op = "read_exact" /\ Len(t.got) # t.want /\ bytes = <<>> -> Ended(t, "eof")
        [] OTHER -> t

(* The exhausted buffer holds no more than the client wants: the source    *)
(* reads into the client's memory, and the lookbehind is given up.         *)
Bypasses == /\ task.pc = "loop"
            /\ task.op # "fill_buf"
            /\ Exhausted
            /\ Wanted >= buf.cap

ReadDirect(n) ==
  /\ Bypasses
  /\ n <= Smaller(Wanted, Remaining)
  /\ n = 0 => Remaining = 0
  /\ buf' = Clear(buf)
  /\ inner' = inner + n
  /\ task' = Received(Run(inner, n))
  /\ UNCHANGED <<lost, call, maxCapacity>>

(* read_exact tries again when the source was interrupted; any other error *)
(* is the client's, and so is an interruption of a plain read.             *)
ReadDirectFailed(interrupted) ==
  /\ Bypasses
  /\ buf' = Clear(buf)
  /\ task' = IF interrupted /\ task.op = "read_exact" THEN task ELSE Ended(task, "error")
  /\ UNCHANGED <<inner, lost, call, maxCapacity>>

(* Faults: the buffer is refilled as it is; and its capacity is given up. *)
Refill_NoClear ==
  /\ task.pc = "loop" /\ Exhausted /\ ~Bypasses
  /\ call' = Called(buf, "fill", 0, NoLimit)
  /\ task' = [task EXCEPT !.pc = "filling"]
  /\ UNCHANGED <<buf, inner, lost, maxCapacity>>

Refill_Discards ==
  /\ task.pc = "loop" /\ Exhausted /\ ~Bypasses
  /\ buf' = Discard(buf)
  /\ call' = Called(Discard(buf), "fill", 0, NoLimit)
  /\ task' = [task EXCEPT !.pc = "filling"]
  /\ UNCHANGED <<inner, lost, maxCapacity>>

(* fill_buf of an exhausted buffer clears it and fills it again.           *)
Refill ==
  /\ task.pc = "loop"
  /\ Exhausted
  /\ ~Bypasses
  /\ buf' = Clear(buf)
  /\ call' = Called(Clear(buf), "fill", 0, NoLimit)
  /\ task' = [task EXCEPT !.pc = "filling"]
  /\ UNCHANGED <<inner, lost, maxCapacity>>

RefillFailed ==
  /\ task.pc = "filling"
  /\ call.result \in {"error", "panic"}
  /\ task' = Ended(task, "error")
  /\ UNCHANGED <<fillVars, maxCapacity>>

(* Fault: what was copied is not consumed. *)
CopyOut_Keeps ==
  /\ \/ task.pc = "loop" /\ ~Exhausted
     \/ task.pc = "filling" /\ call.result \in {"complete", "eof"}
  /\ LET n == IF task.op = "fill_buf" THEN 0 ELSE Smaller(Wanted, buf.len - buf.pos)
     IN  task' = Received(SubSeq(Unconsumed(buf), 1, n))
  /\ call' = NoCall
  /\ UNCHANGED <<buf, inner, lost, maxCapacity>>

(* Unconsumed data is there, or a fill has brought what there is.          *)
CopyOut ==
  /\ \/ task.pc = "loop" /\ ~Exhausted
     \/ task.pc = "filling" /\ call.result \in {"complete", "eof"}
  /\ LET n == IF task.op = "fill_buf" THEN 0 ELSE Smaller(Wanted, buf.len - buf.pos)
     IN  /\ buf' = Consume(buf, n)
         /\ task' = Received(SubSeq(Unconsumed(buf), 1, n))
  /\ call' = NoCall
  /\ UNCHANGED <<inner, lost, maxCapacity>>

(***************************************************************************)
(* read_to_end hands over the buffer and lets the source append the rest,  *)
(* of which it gives n bytes; all of them, unless it fails.                *)
(***************************************************************************)
Rest(n) == Unconsumed(buf) \o Run(inner, n)

ReadToEnd(n, result) ==
  /\ n <= Remaining
  /\ result = "ok" => n = Remaining
  /\ Does(Clear(buf), inner + n,
          [Ended(Task("read_to_end", 0), result) EXCEPT !.got = Rest(n)])
  /\ UNCHANGED lost

(* try_reserve found no memory: nothing has happened yet. *)
ReserveFailed ==
  Does(buf, inner, Ended(Task("read_to_end", 0), "error")) /\ UNCHANGED lost

(***************************************************************************)
(* read_to_string keeps what was read when it is UTF-8 (valid), except     *)
(* that a string that was not empty receives nothing if the read failed.   *)
(* What it does not keep is gone from the buffer and from the source.      *)
(***************************************************************************)
ReadToString(n, result, valid, wasEmpty) ==
  LET kept == valid /\ (result = "ok" \/ wasEmpty)
      answer == IF result = "ok" /\ ~valid THEN "invalid" ELSE result
  IN  /\ n <= Remaining
      /\ result = "ok" => n = Remaining
      /\ Rest(n) = <<>> => valid
      /\ Does(Clear(buf), inner + n,
              [Ended(Task("read_to_string", 0), answer)
                 EXCEPT !.got = IF kept THEN Rest(n) ELSE <<>>])
      /\ lost' = IF kept THEN lost ELSE lost \cup {Rest(n)[i] : i \in 1..Len(Rest(n))}

-----------------------------------------------------------------------------
(* Seek.                                                                   *)
Behind == buf.len - buf.pos       (* what the source has given in advance   *)

Moved(op, b, p, result) == Does(b, p, Ended(Task(op, 0), result)) /\ UNCHANGED lost

SeekFailed == Moved("seek", buf, inner, "error")

(* Fault: the buffer survives the seek. *)
SeekAbsolute_KeepsBuffer(p) == Moved("seek", buf, p, "ok")

(* SeekFrom::Start and SeekFrom::End, whose target the source computes. *)
SeekAbsolute(p) == Moved("seek", Clear(buf), p, "ok")

(***************************************************************************)
(* SeekFrom::Current.  The source is ahead by the unconsumed bytes, so the *)
(* offset is corrected by them; when that is no i64, the source is first   *)
(* rewound to where the client is, and then seeks by the client's offset.  *)
(* A source refuses a position before its start or past what it can count. *)
(***************************************************************************)
Seekable == 0..MAX_POSITION

Fits(offset) == offset - Behind >= I64_MIN

SeekOnce(op, offset) ==
  LET target == inner + (offset - Behind)
  IN  /\ Fits(offset)
      /\ IF target \in Seekable THEN Moved(op, Clear(buf), target, "ok")
                               ELSE Moved(op, buf, inner, "error")

(* Fault: the rewind that has to come first is left out. *)
SeekTwice_NoRewind(op, offset) ==
  /\ ~Fits(offset)
  /\ IF inner + offset \in Seekable THEN Moved(op, Clear(buf), inner + offset, "ok")
                                    ELSE Moved(op, buf, inner, "error")

SeekTwice(op, offset) ==
  LET client == inner - Behind
  IN  /\ ~Fits(offset)
      /\ IF client \notin Seekable THEN Moved(op, buf, inner, "error")
         ELSE IF client + offset \in Seekable THEN Moved(op, Clear(buf), client + offset, "ok")
                                             ELSE Moved(op, Clear(buf), client, "error")

(* The second of the two seeks fails though its target is valid. *)
SeekHalfway(op, offset) ==
  ~Fits(offset) /\ inner - Behind \in Seekable /\ Moved(op, Clear(buf), inner - Behind, "error")

SeekCurrent(op, offset) ==
  SeekOnce(op, offset) \/ SeekTwice(op, offset) \/ SeekHalfway(op, offset)

SeekRelative(offset) ==
  IF 0 <= offset /\ offset <= Behind
  THEN Moved("seek_relative", Consume(buf, offset), inner, "ok")
  ELSE IF offset < 0 /\ -offset <= buf.pos
  THEN Moved("seek_relative", Unconsume(buf, -offset), inner, "ok")
  ELSE SeekCurrent("seek_relative", offset)

(* stream_position: an error when it would be negative. *)
StreamPosition == inner - Behind

-----------------------------------------------------------------------------
Manage == \/ ShrinkCall \/ CompactCall \/ ClearCall \/ DiscardCall
          \/ TakeBufferCall \/ TakeConsumedCall
          \/ \E amt \in Requests : ConsumeCall(amt) \/ GetMutCall(amt)
          \/ \E initial, max \in Settings : IntoPartsCall(initial, max)

StartReading == \/ \E want \in Requests : \/ StartRead("read", want)
                                          \/ StartRead("read_exact", want)
                                          \/ ReadExactHeld(want)
                \/ StartRead("fill_buf", 0)

ReadAll == \/ ReserveFailed
           \/ \E n \in 0..StreamLen, result \in {"ok", "error"} :
                \/ ReadToEnd(n, result)
                \/ \E valid, wasEmpty \in BOOLEAN : ReadToString(n, result, valid, wasEmpty)

SeekCall == \/ SeekFailed
            \/ \E p \in Positions : SeekAbsolute(p)
            \/ \E offset \in Offsets : SeekCurrent("seek", offset) \/ SeekRelative(offset)

(* What goes on inside a call. *)
Work == \/ FillStep /\ UNCHANGED <<maxCapacity, task>>
        \/ \E n \in 0..StreamLen : ReadDirect(n)
        \/ \E interrupted \in BOOLEAN : ReadDirectFailed(interrupted)
        \/ Refill \/ RefillFailed \/ CopyOut

Next == Manage \/ FillCall \/ StartReading \/ ReadAll \/ SeekCall \/ Work

Spec == Init /\ [][Next]_vars

(* A client that leaves the source to the reader.                          *)
AloneSpec == Init /\ [][Next /\ ~\E amt \in Requests : GetMutCall(amt)]_vars

(***************************************************************************)
(* The thread that is inside a call keeps running, and the source neither  *)
(* blocks nor answers Interrupted for ever.  Nothing is assumed of the     *)
(* client, who may stop calling at any time.                               *)
(***************************************************************************)
FairSpec == Spec /\ WF_vars(Work)
-----------------------------------------------------------------------------
TypeOK == /\ buf \in BufferType
          /\ inner \in 0..MAX_POSITION
          /\ lost \subseteq 1..StreamLen
          /\ call \in CallType
          /\ maxCapacity \in Nat
          /\ task \in TaskType

(***************************************************************************)
(* The reader's buffer keeps the invariant of Buffer and never outgrows    *)
(* max_capacity, whatever replaces it (take_buffer, take_consumed) and     *)
(* however a fill grows it, fails or ends.                                 *)
(***************************************************************************)
CapacityBounded == WellFormed(buf) /\ buf.cap <= maxCapacity

(***************************************************************************)
(* A read through the standard traits never changes the capacity: no step  *)
(* of one does, nor one that is done at once.                              *)
(***************************************************************************)
ReadsKeepCapacity == [][task'.op \in Reads => buf'.cap = buf.cap]_vars

(***************************************************************************)
(* A read that comes back short has met the end of the source: Ok(0) for a *)
(* request that is not empty, or UnexpectedEof.  A full buffer, a bypass   *)
(* or a cleared buffer never looks like the end.                           *)
(***************************************************************************)
ShortReadIsEnd ==
  /\ task.op = "read" /\ task.result = "ok" /\ task.want > 0 /\ task.got = <<>>
       => Remaining = 0 /\ Behind = 0
  /\ task.op = "read_exact" /\ task.result = "eof" => Remaining = 0 /\ Behind = 0

(***************************************************************************)
(* fill_to_end leaves nothing behind but what max_capacity keeps out: when *)
(* it returns without an error, the source has ended or the buffer is full *)
(* at max_capacity.                                                        *)
(***************************************************************************)
FillToEndFills ==
  call.op = "fill_all" /\ call.result \in {"complete", "eof", "capped"} =>
    Remaining = 0 \/ buf.len = maxCapacity

(***************************************************************************)
(* Where the client is in the stream: before the first unconsumed byte.    *)
(***************************************************************************)
LogicalPosition == IF Exhausted THEN inner ELSE buf.vec[buf.pos + 1] - 1

(***************************************************************************)
(* The reader implements the cursor of Stream: reads of every kind serve   *)
(* the bytes of the source from that position on, in order, none twice and *)
(* none left out, whether they come from the buffer, through a refill or   *)
(* directly from the source; skipping never goes backwards; a fill or a    *)
(* change of storage is invisible.                                         *)
(***************************************************************************)
Doing == CASE task.op \in Reads -> "reading"
           [] task.op \in {"consume", "clear", "discard", "take_buffer"} -> "skipping"
           [] task.op \in {"seek", "seek_relative"} -> "moving"
           [] OTHER -> "holding"

Cursor == INSTANCE Stream WITH position <- LogicalPosition, doing <- Doing,
                               served <- task.got, missing <- lost

SequentialStream == Cursor!Spec

(***************************************************************************)
(* A seek that is done arrives where the client asked; one that fails      *)
(* leaves the client where it was, even between its two steps.  (Where a   *)
(* failed fill_exact or read_to_string has skipped bytes, positions are    *)
(* off: see StreamPositionIsLogical.)                                      *)
(***************************************************************************)
SeeksLand ==
  [][\A offset \in Offsets :
       lost = {} /\ (SeekCurrent("seek", offset) \/ SeekRelative(offset)) =>
         LogicalPosition' = IF task'.result = "ok" THEN LogicalPosition + offset
                                                   ELSE LogicalPosition]_vars

(* What the doc of Reader says of stream_position (src/reader.rs:71-72): it *)
(* reports the logical position.                                           *)
StreamPositionIsLogical == StreamPosition = LogicalPosition

(* Every call returns: every read, and every fill whoever asked for it. *)
CallsReturn == ~Quiet ~> Quiet
=============================================================================
