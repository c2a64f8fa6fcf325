----------------------------- MODULE TextSweep ------------------------------
(***************************************************************************)
(* The text operations of Buffer on every part of a text.  The state is a  *)
(* text, one character longer at each step; at every state the operations  *)
(* are compared with the characters of that text, for a buffer that holds  *)
(* any run of its bytes, since a read may end and a client may consume in  *)
(* the middle of a character.                                              *)
(***************************************************************************)
EXTENDS Text

CONSTANTS
  Chars,        (* Characters.                                              *)
  MaxChars      (* The length of the longest text, in characters.           *)

ASSUME CharsAssumption == (\A ch \in Chars : IsScalar(ch)) /\ MaxChars \in Nat

VARIABLE text   (* a sequence of characters                                 *)

SweepInit == text = <<>>

Append1(ch) == Len(text) < MaxChars /\ text' = Append(text, ch)

SweepNext == \E ch \in Chars : Append1(ch)

SweepSpec == SweepInit /\ [][SweepNext]_text

Encoded == EncodeAll(text)

(* Where the characters begin, and the end of the text. *)
Boundaries == {Len(EncodeAll(SubSeq(text, 1, n))) : n \in 0..Len(text)}

(* A buffer holds the bytes a..b of the text, its offsets starting at a.    *)
Windows == {w \in (0..Len(Encoded)) \X (0..Len(Encoded)) : w[1] <= w[2]}
Held(w) == SubSeq(Encoded, w[1] + 1, w[2])
Size(w) == w[2] - w[1]
Starts(w) == {i \in 0..Size(w) : w[1] + i \in Boundaries}

-----------------------------------------------------------------------------
(***************************************************************************)
(* as_str and as_str_from give exactly the whole characters that lie in    *)
(* the unconsumed bytes from the offset on, and never an error, wherever   *)
(* the buffer begins and ends in the text.                                 *)
(***************************************************************************)
WholeCharacters ==
  \A w \in Windows : \A pos \in 0..Size(w), offset \in 0..(Size(w) + 1) :
    LET t      == AsStrFrom(Held(w), pos, offset)
        starts == {i \in Starts(w) : pos <= i /\ offset <= i}
    IN  t.ok /\ IF starts = {} THEN t.from = t.to
                ELSE t.from = Min(starts) /\ t.to = Max(starts)

(***************************************************************************)
(* align_pos_to_char moves to the last boundary at or before the offset,   *)
(* if there is one between pos and the offset; in particular the end of    *)
(* the buffer is taken for a boundary only when a character ends there.    *)
(***************************************************************************)
AlignsBackward ==
  \A w \in Windows : \A pos \in 0..Size(w), offset \in 0..(Size(w) + 1) :
    LET before == {i \in Starts(w) : pos <= i /\ i <= Clamped(Held(w), pos, offset)}
    IN  before # {} => AlignPosToChar(Held(w), pos, offset) = Max(before)

(***************************************************************************)
(* align_pos_to_next_char moves to the first boundary at or after the      *)
(* offset, or to the end of a buffer that has none.                        *)
(***************************************************************************)
AlignsForward ==
  \A w \in Windows : \A pos \in 0..Size(w), offset \in 0..(Size(w) + 1) :
    AlignPosToNextChar(Held(w), pos, offset)
      = Min({Size(w)} \cup {i \in Starts(w) : Clamped(Held(w), pos, offset) <= i})
=============================================================================
