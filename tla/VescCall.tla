------------------------------ MODULE VescCall ------------------------------
(***************************************************************************)
(* What a call of the VESC client promises to the bridge loop, whatever    *)
(* the link does to its attempts.  A write without an answer is on the     *)
(* wire exactly once if it is reported sent, and never if it is reported   *)
(* failed.  Any other call puts at most Limit frames on the wire; it       *)
(* succeeds only after a frame of its own, with a frame that fits it; if   *)
(* it fails, any number of its frames may have been obeyed.                *)
(***************************************************************************)
EXTENDS Naturals

CONSTANTS
  Calls,   \* what may be called
  Writes,  \* the calls nobody answers
  Frames,  \* what may come back
  Fits,    \* which frame a call takes for its answer: <<call, frame>>
  Limit,   \* frames a call may put on the wire
  None

VARIABLES
  running,  \* a call is being made
  made,     \* the call that runs, or ran last
  result,   \* none, ok, sent, failed
  answer,   \* the frame it returned
  wire      \* the frames it has put on the wire

callVars == <<running, made, result, answer, wire>>

CallInit ==
  /\ running = FALSE
  /\ made = None
  /\ result = "none"
  /\ answer = None
  /\ wire = 0

Start(c) ==
  /\ ~running
  /\ running' = TRUE
  /\ made' = c
  /\ result' = "none" /\ answer' = None /\ wire' = 0

Transmit ==
  /\ running
  /\ made \notin Writes
  /\ wire < Limit[made]
  /\ wire' = wire + 1
  /\ UNCHANGED <<running, made, result, answer>>

End(how, frame) ==
  /\ running
  /\ running' = FALSE
  /\ result' = how /\ answer' = frame
  /\ UNCHANGED made

Send ==
  /\ made \in Writes
  /\ wire = 0 /\ wire' = 1
  /\ End("sent", None)

Succeed ==
  /\ made \notin Writes
  /\ wire > 0
  /\ answer' \in Frames /\ <<made, answer'>> \in Fits
  /\ End("ok", answer')
  /\ UNCHANGED wire

Fail == End("failed", None) /\ UNCHANGED wire

CallNext ==
  \/ \E c \in Calls : Start(c)
  \/ Transmit \/ Send \/ Succeed \/ Fail

CallSpec == CallInit /\ [][CallNext]_callVars
=============================================================================
