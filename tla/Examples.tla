------------------------------ MODULE Examples -------------------------------
(***************************************************************************)
(* The two example programs whose Reader has a window of a single chunk:   *)
(* binary_frames or retained_prefix runs, each on a Reader of its own.     *)
(***************************************************************************)
EXTENDS BinaryFrames, RetainedPrefix

VARIABLE program        (* the one that runs                                *)

allVars == <<vars, step, outcome, program, framesVars, prefixVars>>

ExamplesInit ==
  \/ /\ program = "binary_frames"
     /\ FramesInit
     /\ header = NewBuffer /\ body = <<>> /\ began = 0
  \/ /\ program = "retained_prefix"
     /\ PrefixInit
     /\ payloadLen = 0 /\ printed = <<>>

FramesStep == program = "binary_frames" /\ FramesNext /\ UNCHANGED <<program, prefixVars>>
PrefixStep == program = "retained_prefix" /\ PrefixNext /\ UNCHANGED <<program, framesVars>>

(***************************************************************************)
(* binary_frames runs by itself.  Of retained_prefix nothing is assumed:   *)
(* its io::copy reads again after every interruption.                      *)
(***************************************************************************)
ExamplesSpec == /\ ExamplesInit
                /\ [][FramesStep \/ PrefixStep]_allVars
                /\ WF_allVars(FramesStep)
-----------------------------------------------------------------------------
(* Every payload that binary_frames prints is that of the next frame.      *)
FramesIntact == program = "binary_frames" => PayloadsIntact

(* What binary_frames returns is true of what is left of its input.        *)
VerdictIsRight == program = "binary_frames" => FramesVerdict

(* binary_frames comes to an end, on every input.                          *)
Returns == program = "binary_frames" ~> outcome # "running"

(* retained_prefix cuts its input once, after the first line.              *)
HeaderThenBody == program = "retained_prefix" => CutOnce

(* retained_prefix refuses a header only when the window has no newline.   *)
RefusesOnlyLong == program = "retained_prefix" => RefusedIsLong
=============================================================================
