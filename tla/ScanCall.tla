------------------------------ MODULE ScanCall ------------------------------
(***************************************************************************)
(* What one call of the scanner promises to the fleet: while it runs,      *)
(* boards answer at their addresses; it returns one answer of each board   *)
(* that has a uuid, whichever, and every other answer; if it raises,       *)
(* nobody was asked.                                                       *)
(***************************************************************************)
CONSTANTS
  Answers,   \* what a probe may find: [at, board]
  Anonymous  \* boards that cannot be told apart by a uuid

VARIABLES
  status,   \* running, returned, raised
  heard,    \* the answers there were
  returned  \* the endpoints the call returned

callVars == <<status, heard, returned>>

(* Two answers the fleet takes for one device.                             *)
Same(a, b) == a.board = b.board /\ (a.board \in Anonymous => a.at = b.at)

OneOfEach(kept, all) ==
  /\ kept \subseteq all
  /\ \A a \in all : \E k \in kept : Same(k, a)
  /\ \A k, l \in kept : Same(k, l) => k = l

CallInit ==
  /\ status \in {"running", "returned"}
  /\ heard = {} /\ returned = {}

Hear(a) ==
  /\ status = "running"
  /\ a \notin heard
  /\ heard' = heard \union {a}
  /\ UNCHANGED <<status, returned>>

Return ==
  /\ status = "running"
  /\ status' = "returned"
  /\ OneOfEach(returned', heard)
  /\ UNCHANGED heard

Raise ==
  /\ status = "running"
  /\ heard = {}
  /\ status' = "raised"
  /\ UNCHANGED <<heard, returned>>

CallNext == (\E a \in Answers : Hear(a)) \/ Return \/ Raise

CallSpec == CallInit /\ [][CallNext]_callVars
=============================================================================
