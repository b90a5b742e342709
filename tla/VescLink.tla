------------------------------ MODULE VescLink ------------------------------
(***************************************************************************)
(* The calls of VescTcpClient (protocol.py), attempt by attempt, over a    *)
(* TCP bridge that forgets, delays and breaks what passes through it.      *)
(*                                                                         *)
(* A call is a read (query and _retry_decode), a query without decode      *)
(* retries (ping_can, set_refloat_leds) or a fire-and-forget write (send). *)
(* Every attempt opens a socket of its own.  The bridge works through the  *)
(* requests one by one and hands each answer to the socket that is open    *)
(* at that moment, whoever opened it: the answer to an attempt that gave   *)
(* up reaches a later one ("a frame that is not the response to the        *)
(* just-sent command", docstring of _retry_decode).                        *)
(*                                                                         *)
(* Names of answers stand for the command bytes the decoders compare.  A   *)
(* frame with a bad CRC, type or end byte and a closed or silent socket    *)
(* are one thing to the client: an attempt that failed.                    *)
(***************************************************************************)
EXTENDS Naturals, Sequences

CONSTANTS
  Nodes,       \* CAN ids a request may be forwarded to
  Calls,       \* the calls that are made: records [kind, node]
  Retries,     \* retries of query and send
  Attempts,    \* attempts of _retry_decode
  MaxPending,  \* bound: requests the TCP bridge holds
  None         \* Python's None

(* The calls by the code that makes them.                                  *)
DirectReads == {"firmware", "bms"}
ForwardedReads == {"controller", "info", "ids", "realtime", "lights"}
Decoded == DirectReads \union ForwardedReads
BmsWrites == {"charge", "balance"}
Kinds == Decoded \union {"nodes", "leds"} \union BmsWrites

Call == [kind : Kinds, node : Nodes \union {None}]

(* Which attempt a request came from: the running one, an earlier one of   *)
(* the same call, or one of a call before.                                 *)
Ages == {"attempt", "call", "before"}
Frame == [kind : Kinds, node : Nodes \union {None}, age : Ages]

ASSUME CallAssumption == Calls \subseteq Call /\ Calls # {}
ASSUME BoundAssumption ==
  /\ Retries \in Nat \ {0}
  /\ Attempts \in Nat \ {0}
  /\ MaxPending \in Nat \ {0}
ASSUME NoneAssumption == None \notin Nodes /\ None \notin Call /\ None \notin Frame

VARIABLES
  pc,       \* the client: idle, about to send, waiting for a frame
  call,     \* the call that runs, or ran last
  attempt,  \* attempt of query or send, from 1
  round,    \* attempt of _retry_decode, from 1
  status,   \* how the call ended: none, ok, sent, failed
  reply,    \* the frame it returned
  pending,  \* requests the bridge has not worked off, oldest first
  stream,   \* answers on the open socket
  kept,     \* history: what was pending when the call began
  faults,   \* history: disturbances of the call's attempts
  frames    \* history: frames the call put on the wire

client == <<pc, call, attempt, round, status, reply>>
bridge == <<pending, stream>>
history == <<kept, faults, frames>>
vars == <<client, bridge, history>>

(* set_refloat_leds is answered like the query of the lights.              *)
Answers(kind) == IF kind = "leds" THEN "lights" ELSE kind

(* ping_can and set_refloat_leds are not wrapped in _retry_decode.         *)
DecodeAttempts(kind) == IF kind \in Decoded THEN Attempts ELSE 1

(* Mutant: the command byte is not compared.                               *)
AcceptsAny(kind, f) == TRUE

(* The decoder looks at the command bytes: not at the CAN node, which the  *)
(* answer does not name.                                                   *)
Accepts(kind, f) == Answers(f.kind) = Answers(kind)

Init ==
  /\ pc = "idle" /\ call = None
  /\ attempt = 1 /\ round = 1
  /\ status = "none" /\ reply = None
  /\ pending = <<>> /\ stream = <<>>
  /\ kept = <<>> /\ faults = 0 /\ frames = 0

Aged(requests, age) == [i \in DOMAIN requests |-> [requests[i] EXCEPT !.age = age]]

(* An attempt is over: the requests it leaves behind are those of an       *)
(* earlier attempt.                                                        *)
Left(requests) ==
  [i \in DOMAIN requests |->
     IF requests[i].age = "attempt" THEN [requests[i] EXCEPT !.age = "call"]
     ELSE requests[i]]

(* Mutant: one socket serves all attempts.                                 *)
KeepSocket(requests) ==
  /\ pending' = Left(requests)
  /\ UNCHANGED stream

(* The socket is closed: what it has not delivered is lost, and the bridge *)
(* drops any number of the newest requests it still holds.                 *)
CloseSocket(requests) ==
  /\ \E n \in 0 .. Len(requests) : pending' = SubSeq(Left(requests), 1, n)
  /\ stream' = <<>>

-----------------------------------------------------------------------------
(* The client.                                                             *)

Begin(c) ==
  /\ pc = "idle"
  /\ call' = c
  /\ pc' = "send"
  /\ attempt' = 1 /\ round' = 1
  /\ status' = "none" /\ reply' = None
  /\ pending' = Aged(pending, "before")
  /\ kept' = pending'
  /\ faults' = 0 /\ frames' = 0
  /\ UNCHANGED stream

Return(result, f) ==
  /\ pc' = "idle"
  /\ status' = result
  /\ reply' = f
  /\ UNCHANGED <<call, attempt, round, kept>>

(* Mutant: the last attempt of _retry_decode is left out.                  *)
RoundFailedEarly ==
  IF round + 1 < DecodeAttempts(call.kind)
    THEN /\ pc' = "send"
         /\ attempt' = 1
         /\ round' = round + 1
         /\ UNCHANGED <<call, status, reply, kept>>
    ELSE Return("failed", None)

(* An attempt of _retry_decode is lost: query raised, or its frame is not  *)
(* one the decoder takes.                                                  *)
RoundFailed ==
  IF round < DecodeAttempts(call.kind)
    THEN /\ pc' = "send"
         /\ attempt' = 1
         /\ round' = round + 1
         /\ UNCHANGED <<call, status, reply, kept>>
    ELSE Return("failed", None)

(* Mutant: query goes on for one attempt more than it is asked to.         *)
AttemptFailedLate ==
  IF attempt <= Retries
    THEN /\ pc' = "send"
         /\ attempt' = attempt + 1
         /\ UNCHANGED <<call, round, status, reply, kept>>
    ELSE RoundFailed

AttemptFailed ==
  IF attempt < Retries
    THEN /\ pc' = "send"
         /\ attempt' = attempt + 1
         /\ UNCHANGED <<call, round, status, reply, kept>>
    ELSE RoundFailed

Request == [kind |-> call.kind, node |-> call.node, age |-> "attempt"]

(* connect and sendall succeed.  A bridge that holds MaxPending requests   *)
(* takes no other.                                                         *)
SendFrame ==
  /\ pc = "send"
  /\ frames' = frames + 1
  /\ LET taken == IF Len(pending) < MaxPending THEN Append(pending, Request)
                  ELSE pending
     IN  IF call.kind \in BmsWrites
           THEN /\ Return("sent", None)
                /\ CloseSocket(taken)
                /\ UNCHANGED faults
           ELSE /\ pc' = "read"
                /\ pending' = taken
                /\ faults' = IF taken = pending THEN faults + 1 ELSE faults
                /\ UNCHANGED <<call, attempt, round, status, reply, stream, kept>>

(* connect or sendall raises; a frame that was cut off is no request.      *)
SendFails ==
  /\ pc = "send"
  /\ AttemptFailed
  /\ faults' = faults + 1
  /\ UNCHANGED <<bridge, frames>>

(* The bridge still has the request of the running attempt, or its answer  *)
(* is on the way.                                                          *)
InFlight ==
  \/ \E i \in DOMAIN pending : pending[i].age = "attempt"
  \/ \E i \in DOMAIN stream : stream[i].age = "attempt"

(* Mutant: a timeout is not an error, and the client reads on.             *)
ReadFailsNever ==
  /\ pc = "read"
  /\ UNCHANGED vars

(* _read_frame raises: nothing came in time, the bridge reset the          *)
(* connection, or the frame is damaged.  It is the fault of a slow answer  *)
(* unless the request had been lost before.                                *)
ReadFails ==
  /\ pc = "read"
  /\ AttemptFailed
  /\ CloseSocket(pending)
  /\ faults' = IF InFlight THEN faults + 1 ELSE faults
  /\ UNCHANGED frames

(* _read_frame returns the first frame on the socket.                      *)
ReadFrame ==
  /\ pc = "read"
  /\ stream # <<>>
  /\ CloseSocket(pending)
  /\ IF Accepts(call.kind, Head(stream))
       THEN Return("ok", Head(stream))
       ELSE RoundFailed
  /\ UNCHANGED <<faults, frames>>

(* A frame with the right command bytes whose contents do not decode (cut  *)
(* short, or a realtime frame of another package: RealtimeDecode).  It     *)
(* costs a round, as much as Retries disturbances of the link.             *)
ReadUnreadable ==
  /\ pc = "read"
  /\ stream # <<>>
  /\ Accepts(call.kind, Head(stream))
  /\ RoundFailed
  /\ CloseSocket(pending)
  /\ faults' = faults + Retries
  /\ UNCHANGED frames

-----------------------------------------------------------------------------
(* The TCP bridge and the board behind it.                                 *)

(* The oldest request is carried out, and its answer goes to the socket    *)
(* that is open; a BMS write has none.                                     *)
Serve ==
  /\ pending # <<>>
  /\ pending' = Tail(pending)
  /\ stream' = IF pc = "read" /\ Head(pending).kind \notin BmsWrites
                 THEN Append(stream, Head(pending)) ELSE stream
  /\ UNCHANGED <<client, history>>

(* The CAN bus, the node or the bridge loses it, or nobody answers.        *)
Lose ==
  /\ pending # <<>>
  /\ pending' = Tail(pending)
  /\ faults' = IF Head(pending).age = "attempt" THEN faults + 1 ELSE faults
  /\ UNCHANGED <<client, stream, kept, frames>>

Client == SendFrame \/ SendFails \/ ReadFrame \/ ReadUnreadable \/ ReadFails

Next ==
  \/ \E c \in Calls : Begin(c)
  \/ Client
  \/ Serve
  \/ Lose

Spec == Init /\ [][Next]_vars

(* Every blocking call of the client has a timeout.                        *)
FairSpec == Spec /\ WF_vars(Client)
=============================================================================
