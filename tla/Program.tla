------------------------------ MODULE Program ------------------------------
(***************************************************************************)
(* What the example programs have in common: a function that opens a       *)
(* Reader of a given window and runs by itself, one statement at a time.   *)
(* A statement calls a method of the Reader, and the next one waits until  *)
(* that has returned.                                                      *)
(***************************************************************************)
EXTENDS Reader

VARIABLES
  step,         (* what the function does next                              *)
  outcome       (* "running", or what it has returned                       *)

(* Reader::builder(input).max_capacity(window).build(), on an input that is *)
(* what the source has from p on.                                          *)
Opens(window, p) ==
  /\ buf = InitialBuffer(NoLimit)
  /\ maxCapacity = MaxCapacity(window, NoLimit)
  /\ inner = p
  /\ lost = {}
  /\ call = NoCall
  /\ task = Ended(Task("other", 0), "ok")
  /\ outcome = "running"

At(s) == outcome = "running" /\ Quiet /\ step = s

(* The reader's own steps: the fill and the reads that a method makes.      *)
Inside == Work /\ UNCHANGED <<step, outcome>>

Goes(s) == step' = s /\ UNCHANGED outcome

(* peek(usize::MAX), and the newlines in it, which are looked for once     *)
(* fill_until has returned without an error.                                *)
Available == Unconsumed(buf)

Newlines == {i \in 1..Len(Available) : Available[i] \in Delimiters}

Looking == At("look") /\ call.result \in {"complete", "eof", "capped"}

LookFailed == At("look") /\ call.result \in {"error", "panic"}

Return(result) == outcome' = result /\ UNCHANGED <<vars, step>>
=============================================================================
