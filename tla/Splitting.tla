----------------------------- MODULE Splitting ------------------------------
(***************************************************************************)
(* What a program promises that takes a stream apart into records, each    *)
(* ended by a delimiter and of a bounded length: it hands out the records  *)
(* one by one, whole and in order, and it stops when the stream is at its  *)
(* end, when the next record is none, or when something else fails.        *)
(***************************************************************************)
EXTENDS Integers, Sequences

CONSTANTS
  Last,         (* The stream is 1..Last.                                   *)
  Ends,         (* The bytes that are delimiters.                           *)
  Longest       (* The length of the longest record, delimiter included.    *)

VARIABLES
  from,         (* the position the next record begins after                *)
  output,       (* the records handed out                                   *)
  outcome       (* "running", or why the program has stopped                *)

vars == <<from, output, outcome>>

Init == from \in 0..Last /\ output = <<>> /\ outcome = "running"

(* The record that begins after from ends with e. *)
IsRecord(e) == /\ e \in Ends
               /\ e > from
               /\ \A d \in Ends : d > from => e <= d

Stop(reason) == outcome' = reason /\ UNCHANGED <<from, output>>

Deliver == \E e \in (from + 1)..Last :
             /\ IsRecord(e)
             /\ e - from <= Longest
             /\ output' = Append(output, [i \in 1..(e - from) |-> from + i])
             /\ from' = e
             /\ UNCHANGED outcome

Finish == from = Last /\ Stop("done")

TooLong == /\ Last - from >= Longest
           /\ \A e \in (from + 1)..(from + Longest) : e \notin Ends
           /\ Stop("too long")

Unterminated == /\ Last - from \in 1..(Longest - 1)
                /\ \A e \in (from + 1)..Last : e \notin Ends
                /\ Stop("unterminated")

Next == /\ outcome = "running"
        /\ Deliver \/ Finish \/ TooLong \/ Unterminated \/ Stop("failed")

Spec == Init /\ [][Next]_vars

(* The program goes on until it stops. *)
Progress == WF_vars(Next)
=============================================================================
