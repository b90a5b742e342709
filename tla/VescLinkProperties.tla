------------------------- MODULE VescLinkProperties -------------------------
(***************************************************************************)
(* What a call of VescTcpClient promises to the bridge loop.               *)
(***************************************************************************)
EXTENDS VescLink, FiniteSets

(* Every variable keeps its type; answers are on a socket only while the   *)
(* client waits on it.                                                     *)
TypeOK ==
  /\ pc \in {"idle", "send", "read"}
  /\ call \in Calls \union {None}
  /\ attempt \in 1 .. Retries
  /\ round \in 1 .. Attempts
  /\ status \in {"none", "ok", "sent", "failed"}
  /\ reply \in Frame \union {None}
  /\ pending \in Seq(Frame)
  /\ stream \in Seq(Frame)
  /\ kept \in Seq(Frame)
  /\ faults \in Nat
  /\ frames \in Nat
  /\ pc # "idle" => call # None
  /\ pc # "read" => stream = <<>>

(* One call puts at most Retries frames on the wire for each decode        *)
(* attempt, an LED write at most Retries, a BMS write one: retries do not  *)
(* multiply writes beyond that (query, send and _retry_decode nested).     *)
FramesBounded ==
  call # None =>
    frames <= IF call.kind \in BmsWrites THEN 1
              ELSE Retries * DecodeAttempts(call.kind)

(* The attempts, rounds and sockets hidden, a call keeps the promise of    *)
(* VescCall, on which the writes and reads of OnewheelBridge rest.         *)
Promise ==
  INSTANCE VescCall WITH
    Writes <- {c \in Calls : c.kind \in BmsWrites},
    Frames <- Frame,
    Fits <- {m \in Calls \X Frame : Answers(m[1].kind) = Answers(m[2].kind)},
    Limit <- [c \in Calls |-> Retries * DecodeAttempts(c.kind)],
    running <- pc # "idle", made <- call, result <- status, answer <- reply,
    wire <- frames

CallSpec == Promise!CallSpec

(* The requests among these whose answer a call of this kind reads and the *)
(* decoder refuses; a BMS write reads nothing.                             *)
StraysAmong(kind, requests) ==
  {i \in DOMAIN requests :
     /\ kind \notin BmsWrites
     /\ ~Accepts(kind, requests[i])
     /\ requests[i].kind \notin BmsWrites}

Strays == Cardinality(StraysAmong(call.kind, kept))

(* A call fails only when it has run out of every attempt it has ("the     *)
(* client retries each query before marking the poll failed", README 253): *)
(* each of its decode attempts met an answer the bridge had kept for       *)
(* another command, an answer that did not decode, or Retries disturbances *)
(* of the link.                                                            *)
FailsOnlyWhenExhausted ==
  status = "failed" =>
    faults + Retries * Strays >= Retries * DecodeAttempts(call.kind)

(* A frame of an earlier call is taken for the answer only if the bridge   *)
(* had kept a request for the same command when the call began: nothing    *)
(* else ever passes from one socket to the next (one socket per attempt).  *)
StaleOnlyIfKept ==
  status = "ok" /\ reply.age = "before" =>
    \E i \in DOMAIN kept : Accepts(call.kind, kept[i])

(* A call ends, whatever the bridge does.                                  *)
CallsReturn == pc # "idle" ~> pc = "idle"

-----------------------------------------------------------------------------
(* "Guarded BMS writes use fresh BMS telemetry" (README 112), "discard the *)
(* bad frame and retry" (_retry_decode): what a call returns answers a     *)
(* request of that call.                                                   *)
ReadingsFresh == status = "ok" => reply.age # "before"
=============================================================================
