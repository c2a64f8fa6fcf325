------------------------------ MODULE Records -------------------------------
(***************************************************************************)
(* The example program records (src/examples/records.rs): a client of the  *)
(* Reader that fills until a newline, consumes the record, prints it from  *)
(* the consumed bytes, and reclaims them.                                  *)
(***************************************************************************)
EXTENDS Program

CONSTANT RECORD_CAPACITY
ASSUME RecordAssumption == RECORD_CAPACITY \in Nat

VARIABLES
  recordLen,    (* the local record_len of print_records                    *)
  records       (* the records written to the output                        *)

recordsVars == <<recordLen, records>>

recordsAll == <<vars, step, outcome, recordsVars>>

(* The input is any end of the stream. *)
RecordsInit == \E p \in 0..StreamLen :
                 /\ Opens(RECORD_CAPACITY, p)
                 /\ step = "fill" /\ recordLen = 0 /\ records = <<>>

FillRecord == At("fill") /\ Fills(FillUntil) /\ Goes("look") /\ UNCHANGED recordsVars

RecordFailed == LookFailed /\ Return("failed") /\ UNCHANGED recordsVars

EndOfInput == Looking /\ Available = <<>> /\ Return("done") /\ UNCHANGED recordsVars

NoNewline == /\ Looking
             /\ Available # <<>> /\ Newlines = {}
             /\ Return(IF buf.len = maxCapacity THEN "too long" ELSE "unterminated")
             /\ UNCHANGED recordsVars

ConsumeRecord ==
  /\ Looking
  /\ \E newline \in Newlines :
       /\ \A i \in Newlines : newline <= i
       /\ ConsumeCall(newline)
       /\ recordLen' = newline
  /\ Goes("print") /\ UNCHANGED records

(* peek_behind(n) *)
PeekBehind(b, n) == SubSeq(b.vec, (IF n <= b.pos THEN b.pos - n ELSE 0) + 1, b.pos)

(* Fault: the consumed bytes are reclaimed before they are used. *)
PrintRecord_CompactsFirst ==
  /\ At("print")
  /\ records' = Append(records, PeekBehind(Compact(buf), recordLen))
  /\ CompactCall
  /\ Goes("fill") /\ UNCHANGED recordLen

PrintRecord ==
  /\ At("print")
  /\ records' = Append(records, PeekBehind(buf, recordLen))
  /\ CompactCall
  /\ Goes("fill") /\ UNCHANGED recordLen

WriteFailed == At("print") /\ Return("failed") /\ UNCHANGED recordsVars

RecordsNext == \/ Inside /\ UNCHANGED recordsVars
               \/ FillRecord \/ RecordFailed \/ EndOfInput \/ NoNewline
               \/ ConsumeRecord \/ PrintRecord \/ WriteFailed

RecordsSpec == RecordsInit /\ [][RecordsNext]_recordsAll /\ WF_recordsAll(RecordsNext)
-----------------------------------------------------------------------------
(***************************************************************************)
(* The program splits its input: the records it prints are those of the    *)
(* input, whole, in order and none left out, however the reads cut them;   *)
(* it stops without a failure only at the end, it refuses a record only    *)
(* when that does not fit RECORD_CAPACITY or has no newline, and says      *)
(* which.                                                                  *)
(***************************************************************************)
Unprinted == IF step = "print" THEN LogicalPosition - recordLen ELSE LogicalPosition

Split == INSTANCE Splitting WITH
           Last <- StreamLen, Ends <- Delimiters,
           Longest <- MaxCapacity(RECORD_CAPACITY, NoLimit),
           from <- Unprinted, output <- records

SplitsItsInput == Split!Spec

(***************************************************************************)
(* It goes on to the next record or stops, since the source does not       *)
(* answer Interrupted for ever: no read of a fill is made again and again  *)
(* without an end.                                                         *)
(***************************************************************************)
KeepsGoing == Split!Progress
=============================================================================
