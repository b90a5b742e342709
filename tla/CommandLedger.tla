--------------------------- MODULE CommandLedger ---------------------------
(***************************************************************************)
(* What the guarded-control path promises about a command, whatever the    *)
(* board does: a command is refused at the door or accepted once; accepted *)
(* commands run one at a time in the order of acceptance; each gets at     *)
(* most one outcome; "ok" is only ever reported for a command whose write  *)
(* frame was sent; a command that is not running is never written.  A      *)
(* restart may lose the commands that were waiting or running, and nothing *)
(* else.                                                                   *)
(***************************************************************************)
EXTENDS Naturals, Sequences

CONSTANTS Ids,        \* identities of the commands, in the order of sending
          Capacity,   \* bound of the waiting room
          None        \* "no command is running"

VARIABLES waiting,    \* accepted commands that have not started, oldest first
          running,    \* the command being executed, or None
          accepted,   \* every command ever accepted
          written,    \* commands whose write frame has been sent
          outcome,    \* the final status of every command
          restarts    \* how often the process was restarted

ledgerVars == <<waiting, running, accepted, written, outcome, restarts>>

Outcomes == {"none", "ok", "rejected"}

LedgerInit ==
  /\ waiting = <<>>
  /\ running = None
  /\ accepted = {}
  /\ written = {}
  /\ outcome = [c \in Ids |-> "none"]
  /\ restarts = 0

New(c) == c \notin accepted /\ outcome[c] = "none"

Accept(c) ==
  /\ New(c)
  /\ Len(waiting) < Capacity
  /\ waiting' = Append(waiting, c)
  /\ accepted' = accepted \union {c}
  /\ UNCHANGED <<running, written, outcome, restarts>>

Refuse(c) ==
  /\ New(c)
  /\ outcome' = [outcome EXCEPT ![c] = "rejected"]
  /\ UNCHANGED <<waiting, running, accepted, written, restarts>>

Start ==
  /\ running = None
  /\ waiting # <<>>
  /\ running' = Head(waiting)
  /\ waiting' = Tail(waiting)
  /\ UNCHANGED <<accepted, written, outcome, restarts>>

Write ==
  /\ running # None
  /\ running \notin written
  /\ written' = written \union {running}
  /\ UNCHANGED <<waiting, running, accepted, outcome, restarts>>

(* The outcome of the running command, with the last write attempt that   *)
(* decided it when that attempt was not acknowledged.                      *)
Finish(status) ==
  /\ running # None
  /\ outcome[running] = "none"
  /\ outcome' = [outcome EXCEPT ![running] = status]
  /\ running' = None
  /\ UNCHANGED <<waiting, accepted, restarts>>

Succeed ==
  /\ running \in written
  /\ Finish("ok")
  /\ UNCHANGED written

Fail ==
  /\ Finish("rejected")
  /\ \/ UNCHANGED written
     \/ running \notin written /\ written' = written \union {running}

Crash ==
  /\ restarts' = restarts + 1
  /\ waiting' = <<>>
  /\ running' = None
  /\ UNCHANGED <<accepted, written, outcome>>

LedgerNext ==
  \/ \E c \in Ids : Accept(c) \/ Refuse(c)
  \/ Start
  \/ Write
  \/ Succeed
  \/ Fail
  \/ Crash

LedgerSpec == LedgerInit /\ [][LedgerNext]_ledgerVars
=============================================================================
