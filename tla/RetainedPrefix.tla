--------------------------- MODULE RetainedPrefix ---------------------------
(***************************************************************************)
(* The example program retained_prefix (src/examples/retained_prefix.rs):  *)
(* a client of the Reader that keeps the first line of its input, the      *)
(* header, as a Buffer of its own, and hands the rest to io::copy.         *)
(***************************************************************************)
EXTENDS Program

CONSTANT CopyLens       (* The lengths of the reads that io::copy makes.    *)

(* The delimiters are bytes of the stream; io::copy reads into some memory. *)
ASSUME PrefixAssumption == /\ Delimiters \subseteq 1..StreamLen
                           /\ CopyLens \subseteq Nat \ {0}

VARIABLES
  header,       (* the local header of copy_body, a Buffer                  *)
  body,         (* what io::copy has written to the output                  *)
  began         (* history: where in the stream the input begins            *)

prefixVars == <<header, body, began>>

PrefixInit == \E p \in 0..StreamLen :
                /\ Opens(CHUNK_SIZE, p) /\ began = p
                /\ step = "fill" /\ header = NewBuffer /\ body = <<>>

(* Fault: a single read is taken for the header. *)
FillHeader_Once == At("fill") /\ Fills(FillOnce) /\ Goes("look") /\ UNCHANGED prefixVars

FillHeader == At("fill") /\ Fills(FillUntil) /\ Goes("look") /\ UNCHANGED prefixVars

HeaderFailed == LookFailed /\ Return("failed") /\ UNCHANGED prefixVars

NoHeader == Looking /\ Newlines = {} /\ Return("no header") /\ UNCHANGED prefixVars

ConsumeHeader ==
  /\ Looking
  /\ \E newline \in Newlines : (\A i \in Newlines : newline <= i) /\ ConsumeCall(newline)
  /\ Goes("take") /\ UNCHANGED prefixVars

(* Fault: take_buffer in the place of take_consumed. *)
TakeHeader_Whole ==
  /\ At("take")
  /\ header' = buf
  /\ TakeBufferCall
  /\ Goes("copy") /\ UNCHANGED <<body, began>>

TakeHeader == /\ At("take")
              /\ header' = TakenPart(buf)
              /\ TakeConsumedCall
              /\ Goes("copy") /\ UNCHANGED <<body, began>>

(***************************************************************************)
(* io::copy: reads into memory of its own until a read gives nothing,      *)
(* writes what each gives, and reads again after an interruption.          *)
(***************************************************************************)
CopyRead == /\ At("copy")
            /\ \E n \in CopyLens : StartRead("read", n)
            /\ Goes("copied") /\ UNCHANGED prefixVars

CopyWrite == /\ At("copied")
             /\ task.result = "ok" /\ task.got # <<>>
             /\ body' = body \o task.got
             /\ Goes("copy") /\ UNCHANGED <<vars, header, began>>

CopyDone == /\ At("copied") /\ task.result = "ok" /\ task.got = <<>>
            /\ Return("done") /\ UNCHANGED prefixVars

CopyAgain == /\ At("copied") /\ task.result = "error"
             /\ Goes("copy") /\ UNCHANGED <<vars, prefixVars>>

(* The read failed, or the write did after some of its bytes.               *)
CopyFailed == /\ At("copied")
              /\ IF task.result = "error" THEN UNCHANGED body
                 ELSE \E n \in 0..(Len(task.got) - 1) : body' = body \o SubSeq(task.got, 1, n)
              /\ Return("failed") /\ UNCHANGED <<header, began>>

PrefixNext == \/ Inside /\ UNCHANGED prefixVars
              \/ FillHeader \/ HeaderFailed \/ NoHeader \/ ConsumeHeader \/ TakeHeader
              \/ CopyRead \/ CopyWrite \/ CopyDone \/ CopyAgain \/ CopyFailed

-----------------------------------------------------------------------------
(* The length of the first line of the input, newline included.            *)
IsFirstLine(n) == /\ began + n \in Delimiters
                  /\ \A i \in 1..(n - 1) : began + i \notin Delimiters

(***************************************************************************)
(* The header and the body are the input, cut after its first line:        *)
(* nothing of the read-ahead goes with the header, is copied twice or is   *)
(* left out, and the header outlives whatever the copy does to the reader. *)
(***************************************************************************)
CutOnce ==
  step \in {"copy", "copied"} =>
    LET n == header.len + Len(body)
    IN  /\ IsFirstLine(header.len)
        /\ Buf(header) \o body = Run(began, n)
        /\ outcome = "done" => began + n = StreamLen

(***************************************************************************)
(* A header is refused only when the first max_capacity bytes of the input *)
(* have no newline.                                                        *)
(***************************************************************************)
RefusedIsLong ==
  outcome = "no header" => \A n \in 1..CHUNK_SIZE : ~IsFirstLine(n)
=============================================================================
