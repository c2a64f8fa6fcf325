----------------------------- MODULE TextBuffer -----------------------------
(***************************************************************************)
(* fill_until_str and fill_until_char of Buffer.  The loop is the one of   *)
(* BufferFill; this module adds what the bytes are, and with that what the *)
(* loop decides between two reads: found, not text, or read on.            *)
(***************************************************************************)
EXTENDS Buffer, Text

CONSTANTS
  Contents,     (* The streams the source may hold, as sequences of bytes.  *)
  Needles,      (* The strings searched for, sequences of characters,       *)
  NeedleChars   (* and the single characters.                               *)

ASSUME TextAssumption == /\ Contents \subseteq [1..StreamLen -> 0..255]
                         /\ Needles \subseteq Seq(Nat)
                         /\ \A str \in Needles : \A n \in 1..Len(str) : IsScalar(str[n])
                         /\ \A ch \in NeedleChars : IsScalar(ch)

VARIABLES
  content,      (* what the source holds                                    *)
  needle,       (* what the last search looks for, encoded                  *)
  checkPos      (* its local check_pos                                      *)

textVars == <<content, needle, checkPos>>

(* The bytes that a buffer retains. *)
Bytes(b) == [i \in 1..b.len |-> content[b.vec[i]]]

TextInit == /\ Init
            /\ content \in Contents
            /\ needle = <<>>
            /\ checkPos = 0

-----------------------------------------------------------------------------
(* The search begins at the first character.                               *)
FillUntilStr(str, limit) ==
  /\ StartFill("fill_until_str", limit)
  /\ needle' = EncodeAll(str)
  /\ checkPos' = AlignPosToNextChar(Bytes(buf), buf.pos, buf.pos)
  /\ UNCHANGED content

FillUntilChar(ch, limit) == FillUntilStr(<<ch>>, limit)

Searching == call.op = "fill_until_str" /\ call.pc = "check"

(* Nothing is decoded for an empty needle. *)
Unchecked == AsStrFrom(Bytes(buf), buf.pos, checkPos)

IsText  == needle = <<>> \/ Unchecked.ok
IsThere == needle = <<>> \/ Occurs(needle, Bytes(buf), Unchecked.from, Unchecked.to)

(* Fault: the search goes back one byte too few. *)
NextCheckPos_Short ==
  LET end == checkPos + (Unchecked.to - Unchecked.from)
  IN  AlignPosToChar(Bytes(buf), buf.pos, Larger(end + 2 - Len(needle), 0))

(* Backs up by needle.len() - 1, to the start of a character.              *)
NextCheckPos ==
  LET end == checkPos + (Unchecked.to - Unchecked.from)
  IN  AlignPosToChar(Bytes(buf), buf.pos, Larger(end + 1 - Len(needle), 0))

Found == /\ Searching
         /\ IsText /\ IsThere
         /\ Finish
         /\ UNCHANGED textVars

(* Fault: the bytes that are no text are dropped. *)
NotText_Drops ==
  /\ Searching
  /\ ~IsText
  /\ buf' = [buf EXCEPT !.len = Unchecked.to]
  /\ call' = Returned(call, "error")
  /\ UNCHANGED <<inner, lost, textVars>>

NotText == /\ Searching
           /\ ~IsText
           /\ Abandoned
           /\ UNCHANGED textVars

(* read_once is called: it is capped, or goes to read.                     *)
ReadOn == /\ Searching
          /\ IsText /\ ~IsThere
          /\ Capped \/ PrepareRead
          /\ checkPos' = NextCheckPos
          /\ UNCHANGED <<content, needle>>

(* The source answers, or another fill is at work. *)
Reading == /\ ~Searching
           /\ FillStep
           /\ UNCHANGED textVars

TextStep == (Found \/ NotText \/ ReadOn \/ Reading) /\ taken' = NewBuffer

(***************************************************************************)
(* Between the searches the client consumes, goes back, reclaims, splits   *)
(* and reads ahead.                                                        *)
(***************************************************************************)
Client ==
  /\ \/ DiscardCall \/ CompactCall \/ TakeConsumedCall
     \/ \E amt \in Amounts : UnconsumeCall(amt) \/ (ConsumeInRange(amt) /\ ConsumeCall(amt))
     \/ StartFill("fill", NoLimit) /\ taken' = NewBuffer
  /\ needle' = <<>> /\ checkPos' = 0
  /\ UNCHANGED content

Search == /\ \E limit \in Limits : \/ \E str \in Needles : FillUntilStr(str, limit)
                                   \/ \E ch \in NeedleChars : FillUntilChar(ch, limit)
          /\ taken' = NewBuffer

TextNext == Client \/ Search \/ TextStep

allVars == <<vars, textVars>>

TextSpec == TextInit /\ [][TextNext]_allVars
-----------------------------------------------------------------------------
(* check_pos stays in the buffer. *)
TextTypeOK == /\ TypeOK
              /\ content \in Contents
              /\ needle \in Seq(0..255)
              /\ checkPos \in Nat
              /\ Searching => buf.pos <= checkPos /\ checkPos <= buf.len

(***************************************************************************)
(* A text fill is one of the fills of Buffer: it changes no byte, no       *)
(* position and no capacity in a way that Buffer does not promise.         *)
(***************************************************************************)
FillsLikeBuffer == Spec

Answered == call.op = "fill_until_str" /\ call.pc = "idle"
              /\ call.result \in {"complete", "eof", "capped"}

(***************************************************************************)
(* What fill_until_str answers is true of all the unconsumed bytes, though *)
(* it decodes each only once or twice: Complete if and only if the needle  *)
(* is there, however the reads cut it, the characters before it, and bytes *)
(* that are no text.                                                       *)
(***************************************************************************)
SearchVerdict ==
  Answered => (call.result = "complete" <=> Occurs(needle, Bytes(buf), buf.pos, buf.len))

(***************************************************************************)
(* A search fails for its text only when the unconsumed bytes are really   *)
(* no text, but for their cut ends: a read that ends inside a character,   *)
(* and the overlap that is decoded again, are never taken for invalid.     *)
(***************************************************************************)
RejectsOnlyNonText ==
  [][NotText => LET s == Bytes(buf)
                    start == Min({buf.len} \cup {i \in buf.pos..(buf.len - 1) : s[i + 1] \notin 128..191})
                IN  IsInvalid(s, start)]_allVars

(***************************************************************************)
(* What the doc of fill_until_str says (src/buffer.rs:1427-1428): it fails *)
(* if the buffer contains invalid UTF-8; so as_str of what it searched is  *)
(* no error.                                                               *)
(***************************************************************************)
NonTextIsReported == Answered /\ needle # <<>> => AsStr(Bytes(buf), buf.pos).ok
=============================================================================
