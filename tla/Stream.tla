------------------------------- MODULE Stream -------------------------------
(***************************************************************************)
(* What a Reader is to its client: a cursor in the stream of a source.     *)
(* There is no buffer here, and no capacity.  A read serves the bytes at   *)
(* the cursor, a skip passes bytes over, a move puts the cursor somewhere  *)
(* else, and everything else (fills, growth, compaction, taking consumed   *)
(* data) leaves the cursor alone.  Bytes can only go missing where an      *)
(* all-or-nothing operation failed.                                        *)
(***************************************************************************)
EXTENDS Integers, Sequences

VARIABLES
  position,     (* how many bytes of the source lie before the cursor       *)
  doing,        (* the kind of the current or last operation                *)
  served,       (* the bytes it has served so far                           *)
  missing       (* the bytes that failed operations took and did not serve  *)

vars == <<position, doing, served, missing>>

Between(p, q) == (p + 1)..q

Init == position = 0 /\ doing = "holding" /\ served = <<>> /\ missing = {}

(***************************************************************************)
(* The bytes from the cursor on are served in order, after what the same   *)
(* operation served before (before = served) or from scratch.  Only        *)
(* missing ones are left out.                                              *)
(***************************************************************************)
Serve(before) ==
  LET n     == Len(served') - Len(before)
      fresh == [i \in 1..n |-> served'[Len(before) + i]]
      given == {fresh[i] : i \in 1..n}
  IN  /\ doing' = "reading"
      /\ position <= position'
      /\ n >= 0 /\ SubSeq(served', 1, Len(before)) = before
      /\ \A i \in 2..n : fresh[i - 1] < fresh[i]
      /\ given \subseteq Between(position, position')
      /\ Between(position, position') \subseteq given \cup missing'

Hold == /\ doing' = "holding"
        /\ served' = <<>>
        /\ position <= position'
        /\ Between(position, position') \subseteq missing'

Skip == doing' = "skipping" /\ served' = <<>> /\ position <= position'

Move == doing' = "moving" /\ served' = <<>> /\ position' \in Nat

Next == /\ missing \subseteq missing'
        /\ Serve(<<>>) \/ Serve(served) \/ Hold \/ Skip \/ Move

Spec == Init /\ [][Next]_vars
=============================================================================
