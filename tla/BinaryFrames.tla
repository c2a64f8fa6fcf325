---------------------------- MODULE BinaryFrames ----------------------------
(***************************************************************************)
(* The example program binary_frames (src/examples/binary_frames.rs): a    *)
(* client of the Reader that takes apart a stream of frames, each a        *)
(* two-byte length and that many bytes.  What a frame's length bytes say   *)
(* is chosen when they are decoded: any stream is possible.                *)
(***************************************************************************)
EXTENDS Program

CONSTANT PayloadLens    (* The lengths that the length field may say.       *)

(* A length field fits the window. *)
ASSUME FramesAssumption == CHUNK_SIZE >= 2 /\ PayloadLens \subseteq Nat

VARIABLES
  payloadLen,   (* the local payload_len of print_frames                    *)
  printed       (* the payloads written to the output                       *)

framesVars == <<payloadLen, printed>>

FramesInit == Opens(CHUNK_SIZE, 0) /\ step = "first" /\ payloadLen = 0 /\ printed = <<>>

(* Fault: the amount is taken for the length that the buffer shall have. *)
Needed_IsTarget(n) == n

Needed(n) == Larger(n - buf.len, 0)     (* n.saturating_sub(buffer.len())   *)

FrameLen == payloadLen + 2

(* A fill_amount of the program has returned, without an error. *)
Filled(s) == At(s) /\ call.result \in {"complete", "eof"}

FrameFailed == /\ \E s \in {"filled first", "filled length", "filled payload"} : At(s)
               /\ call.result \in {"error", "invalid", "panic"}
               /\ Return(IF call.result = "error" THEN "failed" ELSE call.result)
               /\ UNCHANGED framesVars

(* The first byte of a frame, if nothing is buffered. *)
FillFirst == /\ At("first")
             /\ IF buf.len = 0 THEN Fills(FillAmount(1)) /\ Goes("filled first")
                               ELSE UNCHANGED vars /\ Goes("length")
             /\ UNCHANGED framesVars

NoMoreFrames == /\ Filled("filled first") /\ buf.len = 0
                /\ Return("done") /\ UNCHANGED framesVars

MoreFrames == /\ Filled("filled first") /\ buf.len > 0
              /\ Goes("length") /\ UNCHANGED <<vars, framesVars>>

FillLength == /\ At("length") /\ Fills(FillAmount(Needed(2)))
              /\ Goes("filled length") /\ UNCHANGED framesVars

NoLength == /\ Filled("filled length") /\ buf.len - buf.pos < 2
            /\ Return("no length") /\ UNCHANGED framesVars

DecodeLength ==
  /\ Filled("filled length")
  /\ buf.len - buf.pos >= 2
  /\ \E n \in PayloadLens :
       /\ payloadLen' = n
       /\ IF n + 2 > maxCapacity THEN outcome' = "too long" ELSE UNCHANGED outcome
  /\ step' = "payload"
  /\ UNCHANGED <<vars, printed>>

FillPayload == /\ At("payload") /\ Fills(FillAmount(Needed(FrameLen)))
               /\ Goes("filled payload") /\ UNCHANGED framesVars

NoPayload == /\ Filled("filled payload") /\ buf.len < FrameLen
             /\ Return("no payload") /\ UNCHANGED framesVars

(* peek(n) *)
Peek(b, n) == SubSeq(b.vec, b.pos + 1, Smaller(b.pos + n, b.len))

(* Fault: the payload is taken to be at the front. *)
ConsumeLength_Forgotten ==
  /\ Filled("filled payload")
  /\ buf.len >= FrameLen
  /\ Goes("print")
  /\ UNCHANGED <<vars, framesVars>>

ConsumeLength == /\ Filled("filled payload")
                 /\ buf.len >= FrameLen
                 /\ ConsumeCall(2)
                 /\ Goes("print") /\ UNCHANGED framesVars

PrintPayload == /\ At("print")
                /\ printed' = Append(printed, Peek(buf, payloadLen))
                /\ ConsumeCall(payloadLen)
                /\ Goes("printed") /\ UNCHANGED payloadLen

PrintFailed == At("print") /\ Return("failed") /\ UNCHANGED framesVars

Reclaim == At("printed") /\ CompactCall /\ Goes("first") /\ UNCHANGED framesVars

FramesNext == \/ Inside /\ UNCHANGED framesVars
              \/ FillFirst \/ NoMoreFrames \/ MoreFrames \/ FillLength \/ NoLength
              \/ DecodeLength \/ FillPayload \/ NoPayload \/ FrameFailed
              \/ ConsumeLength \/ PrintPayload \/ PrintFailed \/ Reclaim

-----------------------------------------------------------------------------
(* Where frame k begins, if the frames before it are those printed.         *)
Begin == LET upTo[k \in 1..(Len(printed) + 1)] ==
               IF k = 1 THEN 0 ELSE upTo[k - 1] + 2 + Len(printed[k - 1])
         IN  upTo

Left == StreamLen - Begin[Len(printed) + 1]

(***************************************************************************)
(* Every payload printed is that of the next frame of the input: it        *)
(* follows two length bytes, has the length these say, and no byte of the  *)
(* frames before or of the read-ahead is in it.                            *)
(***************************************************************************)
PayloadsIntact ==
  /\ \A k \in 1..Len(printed) : printed[k] = Run(Begin[k] + 2, Len(printed[k]))
  /\ step = "printed" => Len(printed[Len(printed)]) = payloadLen

(***************************************************************************)
(* The program returns what is true of its input: without an error only    *)
(* when it ends between two frames, with the error for a cut length or a   *)
(* cut payload only when that is what is left, and never because the       *)
(* Reader refused an amount: what is asked for fits the window.            *)
(***************************************************************************)
FramesVerdict ==
  CASE outcome = "done"       -> Left = 0
    [] outcome = "no length"  -> Left = 1
    [] outcome = "no payload" -> Left \in 2..(FrameLen - 1)
    [] outcome = "too long"   -> FrameLen > CHUNK_SIZE
    [] OTHER -> outcome \in {"running", "failed"}

=============================================================================
