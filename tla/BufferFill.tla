----------------------------- MODULE BufferFill -----------------------------
(***************************************************************************)
(* The fill operations of Buffer: one call in progress at a time, reading  *)
(* from one source.  A call is a loop around read_once, and every step of  *)
(* that loop is an action: the check that ends the loop, the growth, and   *)
(* the one read of the source with each of its possible answers.  The      *)
(* modules Buffer and Reader start the calls.                              *)
(***************************************************************************)
EXTENDS BufferOps

CONSTANTS
  StreamLen,    (* The source supplies the bytes 1..StreamLen, then EOF.    *)
  Delimiters    (* The bytes that equal the delimiter of fill_until.        *)

ASSUME SourceAssumption == StreamLen \in Nat /\ Delimiters \subseteq Nat

VARIABLES
  buf,          (* the buffer                                               *)
  inner,        (* how many bytes the source has handed out                 *)
  lost,         (* history: bytes taken from the source by a read_exact     *)
                (* that failed, which no buffer received                    *)
  call          (* the fill in progress, or the last one that returned      *)

fillVars == <<buf, inner, lost, call>>

Ops     == {"none", "fill", "fill_amount", "fill_exact", "fill_to_end",
            "fill_while", "fill_all", "fill_until", "fill_until_str"}
Results == {"none", "complete", "eof", "capped", "invalid", "error", "panic"}

(***************************************************************************)
(* A call: where it is, its arguments, and its local variables             *)
(* starting_capacity (start), total_bytes_read (total) and check_pos       *)
(* (check).  first, the length at the call, is a history variable.         *)
(***************************************************************************)
CallType == [pc : {"idle", "check", "read"}, op : Ops, amt : Nat,
             limit : Nat \cup {NoLimit}, start : Nat, first : Nat,
             total : Nat, check : Nat, result : Results]

NoCall == [pc |-> "idle", op |-> "none", amt |-> 0, limit |-> NoLimit,
           start |-> 0, first |-> 0, total |-> 0, check |-> 0, result |-> "none"]

Called(b, op, amt, limit) ==
  [pc |-> "check", op |-> op, amt |-> amt, limit |-> limit, start |-> b.cap,
   first |-> b.len, total |-> 0, check |-> b.pos, result |-> "none"]

Returned(c, result) == [c EXCEPT !.pc = "idle", !.check = 0, !.result = result]

Idle == call.pc = "idle"

(* What the source still has; a seek may have left it past its end. *)
Remaining == IF inner < StreamLen THEN StreamLen - inner ELSE 0

-----------------------------------------------------------------------------
(* Entering a fill.                                                        *)

(***************************************************************************)
(* These fills only set up their locals.  fill_all is fill_while with a    *)
(* predicate that is always true; fill_until_str is also fill_until_char,  *)
(* and what it searches for is in module TextBuffer.                   *)
(***************************************************************************)
StartFill(op, limit) ==
  /\ Idle
  /\ call' = Called(buf, op, 0, limit)
  /\ UNCHANGED <<buf, inner, lost>>

TooMuch(amt) == amt > MAX_SUPPORTED_CAPACITY - buf.len

(* Fault: room is made for the amount as if the buffer were empty. *)
StartFillAmount_ForEmpty(amt) ==
  /\ Idle
  /\ ~TooMuch(amt)
  /\ call' = Called(buf, "fill_amount", amt, NoLimit)
  /\ buf' = GrowTargetedLinear(buf, amt)
  /\ UNCHANGED <<inner, lost>>

StartFillAmount(amt) ==
  /\ Idle
  /\ IF TooMuch(amt)
     THEN /\ call' = Returned(Called(buf, "fill_amount", amt, NoLimit), "invalid")
          /\ UNCHANGED buf
     ELSE /\ call' = Called(buf, "fill_amount", amt, NoLimit)
          /\ buf' = GrowTargetedLinear(buf, buf.len + amt)
  /\ UNCHANGED <<inner, lost>>

(***************************************************************************)
(* fill_exact is one read_exact of the source into buf[len..len + amt].    *)
(* When that fails the source has handed out n bytes, all it had if it     *)
(* ended; they are written past len, where no reader will look.            *)
(***************************************************************************)
FillExactGrown(amt) == GrowTargetedLinear(buf, buf.len + amt)

FillExactInvalid(amt) ==
  /\ Idle
  /\ TooMuch(amt)
  /\ call' = Returned(Called(buf, "fill_exact", amt, NoLimit), "invalid")
  /\ UNCHANGED <<buf, inner, lost>>

FillExactDone(amt) ==
  /\ Idle
  /\ ~TooMuch(amt)
  /\ amt <= Remaining
  /\ buf' = Absorb(FillExactGrown(amt), amt, inner)
  /\ inner' = inner + amt
  /\ call' = Returned([Called(buf, "fill_exact", amt, NoLimit) EXCEPT !.total = amt], "complete")
  /\ UNCHANGED lost

FillExactFailed(amt, n, result) ==
  /\ Idle
  /\ ~TooMuch(amt)
  /\ n < amt
  /\ IF result = "eof" THEN n = Remaining ELSE n <= Remaining
  /\ buf' = LET b == FillExactGrown(amt)
            IN  [b EXCEPT !.vec = WriteAt(b.vec, b.len, n, inner)]
  /\ inner' = inner + n
  /\ lost' = lost \cup (inner + 1)..(inner + n)
  /\ call' = Returned(Called(buf, "fill_exact", amt, NoLimit), result)

-----------------------------------------------------------------------------
(* The loop.                                                               *)

(* Fault: every fill stops at the capacity it finds. *)
GrowthLimit_NeverGrows == buf.cap

(* fill and fill_amount pass Some(self.cap), fill_to_end None.             *)
GrowthLimit == IF call.op \in {"fill", "fill_amount"} THEN buf.cap ELSE call.limit

(* The delimiter occurs among bytes from..len. *)
FoundFrom(b, from) == \E i \in (from + 1)..b.len : b.vec[i] \in Delimiters

(***************************************************************************)
(* The condition that ends the loop before the next read.  The predicate   *)
(* of fill_while is the caller's, and may answer anything; so may, as far  *)
(* as this module is concerned, the search of fill_until_str.              *)
(***************************************************************************)
Open == {"fill_while", "fill_until_str"}

MayStop == \/ call.op \in Open
           \/ call.op = "fill_until" /\ FoundFrom(buf, call.check)
           \/ call.op = "fill_amount" /\ call.total >= call.amt

MustStop == call.op \notin Open /\ MayStop

(* Faults: excess capacity is kept; and consumed data is dropped on the way. *)
Finish_KeepsCapacity ==
  /\ call.pc = "check"
  /\ MayStop
  /\ call' = Returned(call, "complete")
  /\ UNCHANGED <<buf, inner, lost>>

Finish_Compacts ==
  /\ call.pc = "check"
  /\ MayStop
  /\ buf' = ShrinkTargeted(Compact(buf), call.start)
  /\ call' = Returned(call, "complete")
  /\ UNCHANGED <<inner, lost>>

Finish ==
  /\ call.pc = "check"
  /\ MayStop
  /\ buf' = IF call.op = "fill_amount" THEN buf ELSE ShrinkTargeted(buf, call.start)
  /\ call' = Returned(call, "complete")
  /\ UNCHANGED <<inner, lost>>

(* The predicate unwinds, or the text is no UTF-8: the call is abandoned     *)
(* with its reads in place and what it grew.                                *)
Abandoned ==
  /\ call.pc = "check"
  /\ call.op \in Open
  /\ call' = Returned(call, "error")
  /\ UNCHANGED <<buf, inner, lost>>

(* read_once answers Capped, which fill takes for completion and which is   *)
(* unreachable!() in fill_amount and fill_to_end.                           *)
Capped ==
  /\ call.pc = "check"
  /\ ~MustStop
  /\ IsCapped(buf, GrowthLimit)
  /\ call' = Returned(call, CASE call.op = "fill" -> "complete"
                              [] call.op \in {"fill_amount", "fill_to_end"} -> "panic"
                              [] OTHER -> "capped")
  /\ UNCHANGED <<buf, inner, lost>>

(* read_once grows a full buffer, then slices out the space to read into.  *)
PrepareRead ==
  /\ call.pc = "check"
  /\ ~MustStop
  /\ ~IsCapped(buf, GrowthLimit)
  /\ buf' = GrownForRead(buf, GrowthLimit)
  /\ call' = IF SliceInRange(buf')
             THEN [call EXCEPT !.pc = "read",
                               !.check = IF call.op = "fill_until" THEN buf.len ELSE @]
             ELSE Returned(call, "panic")
  /\ UNCHANGED <<inner, lost>>

(* The source was interrupted; the same slice is read again.               *)
ReadInterrupted ==
  /\ call.pc = "read"
  /\ UNCHANGED fillVars

(* Any other error returns at once: nothing is shrunk and nothing undone.  *)
ReadFailed ==
  /\ call.pc = "read"
  /\ call' = Returned(call, "error")
  /\ UNCHANGED <<buf, inner, lost>>

(* Fault: Ok(0) is taken for progress. *)
ReadNothing_TriesAgain ==
  /\ call.pc = "read"
  /\ Remaining = 0
  /\ call' = [call EXCEPT !.pc = "check"]
  /\ UNCHANGED <<buf, inner, lost>>

(* Ok(0): the source has ended, or the slice had no room.                  *)
ReadNothing ==
  /\ call.pc = "read"
  /\ Remaining = 0 \/ buf.len = buf.cap
  /\ buf' = IF call.op = "fill" THEN buf ELSE ShrinkTargeted(buf, call.start)
  /\ call' = Returned(call, "eof")
  /\ UNCHANGED <<inner, lost>>

(* Faults: the count of the last read replaces the total; and the new bytes *)
(* are taken to be searched already.                                        *)
ReadBytes_LastOnly(n) ==
  /\ call.pc = "read"
  /\ n \in 1..Smaller(buf.cap - buf.len, Remaining)
  /\ buf' = Absorb(buf, n, inner)
  /\ inner' = inner + n
  /\ call' = [call EXCEPT !.total = n, !.pc = "check"]
  /\ UNCHANGED lost

ReadBytes_SkipsSearch(n) ==
  /\ call.pc = "read"
  /\ n \in 1..Smaller(buf.cap - buf.len, Remaining)
  /\ buf' = Absorb(buf, n, inner)
  /\ inner' = inner + n
  /\ call' = [call EXCEPT !.total = @ + n, !.pc = "check", !.check = buf.len + n]
  /\ UNCHANGED lost

(* Ok(n): any number of bytes up to the slice, and up to what is left.     *)
ReadBytes(n) ==
  /\ call.pc = "read"
  /\ n \in 1..Smaller(buf.cap - buf.len, Remaining)
  /\ buf' = Absorb(buf, n, inner)
  /\ inner' = inner + n
  /\ call' = LET c == [call EXCEPT !.total = call.total + n, !.pc = "check"]
             IN  IF call.op = "fill" THEN Returned(c, "complete") ELSE c
  /\ UNCHANGED lost

FillStep == \/ Finish \/ Abandoned \/ Capped \/ PrepareRead
            \/ ReadInterrupted \/ ReadFailed \/ ReadNothing
            \/ \E n \in 1..StreamLen : ReadBytes(n)
-----------------------------------------------------------------------------
(***************************************************************************)
(* No fill reaches unreachable!() or slices outside its storage: the       *)
(* growth that fill_amount does up front is enough that read_once is never *)
(* capped before the amount has arrived.                                   *)
(***************************************************************************)
NoPanic == call.result # "panic"

(***************************************************************************)
(* No byte is duplicated, reordered or dropped on its way into the buffer, *)
(* through partial reads, growth, compaction, splitting and failed reads:  *)
(* the retained bytes are consecutive bytes of the source and end where    *)
(* the source stands, but for what a failed fill_exact consumed.           *)
(***************************************************************************)
BytesInOrder ==
  /\ \A i \in 1..buf.len : buf.vec[i] \in 1..inner
  /\ \A i \in 2..buf.len : /\ buf.vec[i - 1] < buf.vec[i]
                           /\ (buf.vec[i - 1] + 1)..(buf.vec[i] - 1) \subseteq lost
  /\ buf.len > 0 => (buf.vec[buf.len] + 1)..inner \subseteq lost

(* What the docs of fill_to_end, FillResult and UnboundedFillResult say:    *)
(* fills read until EOF (src/buffer.rs:981-982, 44, 78).                    *)
EofMeansEndOfStream == call.result = "eof" => Remaining = 0
=============================================================================
