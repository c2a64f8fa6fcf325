-------------------------------- MODULE Text --------------------------------
(***************************************************************************)
(* The text operations of Buffer (src/buffer.rs): aligning a position to a *)
(* UTF-8 character, and decoding the unconsumed bytes.  Here a byte is its *)
(* value, s is the content buf[..len] of a buffer, pos its read position,  *)
(* and an offset counts the bytes before it, as in the code.               *)
(***************************************************************************)
EXTENDS Integers, Sequences, FiniteSetsExt, SequencesExt

(* The type char: the scalar values of Unicode.                             *)
IsScalar(ch) == ch \in Nat /\ (ch < 55296 \/ 57344 <= ch) /\ ch < 1114112

(***************************************************************************)
(* char::encode_utf8, for the scalar values of Unicode, and the encoding   *)
(* of a string of them.                                                    *)
(***************************************************************************)
Encode(ch) ==
  IF ch < 128 THEN <<ch>>
  ELSE IF ch < 2048 THEN <<192 + ch \div 64, 128 + (ch % 64)>>
  ELSE IF ch < 65536 THEN <<224 + ch \div 4096, 128 + ((ch \div 64) % 64), 128 + (ch % 64)>>
  ELSE <<240 + ch \div 262144, 128 + ((ch \div 4096) % 64),
         128 + ((ch \div 64) % 64), 128 + (ch % 64)>>

EncodeAll(chars) == FlattenSeq([n \in 1..Len(chars) |-> Encode(chars[n])])

(***************************************************************************)
(* str::from_utf8.  The forms of a well-formed character are those of the  *)
(* Unicode standard; a form that the end of the bytes cuts short is        *)
(* incomplete (error_len is None), anything else is invalid.               *)
(***************************************************************************)
Trailing == 128..191

Forms == { <<0..127>>,
           <<194..223, Trailing>>,
           <<{224}, 160..191, Trailing>>,
           <<(225..236) \cup {238, 239}, Trailing, Trailing>>,
           <<{237}, 128..159, Trailing>>,
           <<{240}, 144..191, Trailing, Trailing>>,
           <<241..243, Trailing, Trailing, Trailing>>,
           <<{244}, 128..143, Trailing, Trailing>> }

(* The bytes after offset i are the first n of that form. *)
Follows(s, i, form, n) ==
  /\ n <= Len(form) /\ i + n <= Len(s)
  /\ \A k \in 1..n : s[i + k] \in form[k]

(* valid_up_to, of the bytes from an offset on, as an offset.              *)
ValidUpTo(s, from) ==
  LET upTo[i \in 0..Len(s)] ==
        LET whole == {form \in Forms : Follows(s, i, form, Len(form))}
        IN  IF whole = {} THEN i ELSE upTo[i + Len(CHOOSE form \in whole : TRUE)]
  IN  upTo[from]

IsIncomplete(s, i) == \E form \in Forms : Follows(s, i, form, Len(s) - i)

IsInvalid(s, from) == ~IsIncomplete(s, ValidUpTo(s, from))

-----------------------------------------------------------------------------
(* b & 0b1100_0000 == 0b1000_0000 *)
IsContinuation(b) == b \in 128..191

(* How many bytes the leading byte announces, by its mask; 1 if by none.   *)
Expected(b) == CASE b \in 192..223 -> 2
                 [] b \in 224..239 -> 3
                 [] b \in 240..247 -> 4
                 [] OTHER -> 1

Clamped(s, pos, offset) == Min({Max({offset, pos}), Len(s)})

(* The last offset of pos..to at which no continuation byte stands, or pos. *)
LastStart(s, pos, to) ==
  Max({pos} \cup {i \in pos..to : ~IsContinuation(s[i + 1])})

(* Fault: the end of the buffer is taken for the end of a character. *)
AlignPosToChar_TrustsEnd(s, pos, offset) ==
  LET clamped == Clamped(s, pos, offset)
  IN  IF clamped = Len(s) THEN Len(s) ELSE LastStart(s, pos, clamped)

(* Fault: the position is moved to before pos. *)
AlignPosToChar_BeforePos(s, pos, offset) == LastStart(s, 0, Min({offset, Len(s) - 1}))

(* Buffer::align_pos_to_char *)
AlignPosToChar(s, pos, offset) ==
  LET clamped == Clamped(s, pos, offset)
      start   == LastStart(s, pos, Len(s) - 1)
  IN  IF clamped < Len(s) THEN LastStart(s, pos, clamped)
      ELSE IF pos = Len(s) \/ start + Expected(s[start + 1]) <= Len(s) THEN Len(s)
      ELSE start

(* Fault: an offset inside a character is the next character already. *)
AlignPosToNextChar_Inside(s, pos, offset) == Clamped(s, pos, offset)

(* Buffer::align_pos_to_next_char *)
AlignPosToNextChar(s, pos, offset) ==
  Min({Len(s)} \cup {i \in Clamped(s, pos, offset)..(Len(s) - 1) : ~IsContinuation(s[i + 1])})

(* Fault: a character that the end of the buffer cuts is an error. *)
AsStrFrom_NoTrim(s, pos, offset) ==
  LET start == AlignPosToNextChar(s, pos, offset)
      upTo  == ValidUpTo(s, start)
  IN  [ok |-> upTo = Len(s), from |-> start, to |-> upTo]

(***************************************************************************)
(* Buffer::as_str_from: an error, or the text between the offsets from and *)
(* to.  An incomplete end is trimmed to valid_up_to and what is left is    *)
(* decoded again, which succeeds.                                          *)
(***************************************************************************)
AsStrFrom(s, pos, offset) ==
  LET start == AlignPosToNextChar(s, pos, offset)
  IN  [ok |-> ~IsInvalid(s, start), from |-> start, to |-> ValidUpTo(s, start)]

AsStr(s, pos) == AsStrFrom(s, pos, pos)

(* The needle occurs between two offsets: str::contains.                   *)
Occurs(needle, s, from, to) ==
  \E i \in from..(to - Len(needle)) : SubSeq(s, i + 1, i + Len(needle)) = needle
=============================================================================
