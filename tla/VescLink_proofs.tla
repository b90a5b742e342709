-------------------------- MODULE VescLink_proofs --------------------------
(***************************************************************************)
(* Proofs about VescLink for all calls, retries and sizes of the bridge.   *)
(***************************************************************************)
EXTENDS VescLinkProperties, SequenceTheorems, FiniteSetTheorems, TLAPS

(* What frames may count: Retries for each decode attempt that is over,    *)
(* one for each attempt of this one.                                       *)
Counted ==
  pc # "idle" =>
    /\ round <= DecodeAttempts(call.kind)
    /\ frames <= Retries * (round - 1) + attempt - (IF pc = "send" THEN 1 ELSE 0)
    /\ pc = "read" => call.kind \notin BmsWrites /\ frames > 0
    /\ call.kind \in BmsWrites => frames = 0

(* What an earlier call left behind was kept when this one began.          *)
WasKept(requests) ==
  \A i \in DOMAIN requests :
    requests[i].age = "before" =>
      \E j \in DOMAIN kept : kept[j].kind = requests[i].kind

StaleInvariant ==
  /\ WasKept(pending) /\ WasKept(stream)
  /\ pc # "idle" => status = "none"
  /\ StaleOnlyIfKept

-----------------------------------------------------------------------------
(* Arithmetic and requests.                                                *)

(* The frames of r - 1 rounds and of one more are those of r rounds.       *)
LEMMA OneMoreRound ==
  ASSUME NEW a \in Nat, NEW r \in Nat \ {0}
  PROVE  /\ a * (r - 1) + a = a * r
         /\ a * (r - 1) \in Nat
         /\ a * r \in Nat
OBVIOUS

(* More rounds never mean fewer frames.                                    *)
LEMMA RoundsMonotonic ==
  ASSUME NEW a \in Nat, NEW r \in Nat, NEW s \in Nat, r <= s
  PROVE  a * r <= a * s
<1>1. PICK d \in Nat : s = r + d
  BY s - r \in Nat
<1>2. a * s = a * r + a * d /\ a * d \in Nat /\ a * r \in Nat
  BY <1>1
<1> QED
  BY <1>2

(* A call has between one and Attempts decode attempts, a BMS write one.   *)
LEMMA DecodeAttemptsBound ==
  ASSUME NEW kind
  PROVE  /\ DecodeAttempts(kind) \in 1 .. Attempts
         /\ kind \in BmsWrites => DecodeAttempts(kind) = 1
BY BoundAssumption DEF DecodeAttempts, Decoded, DirectReads, ForwardedReads,
   BmsWrites

(* Giving requests an age changes nothing else.                            *)
LEMMA AgedFacts ==
  ASSUME NEW requests \in Seq(Frame), NEW age \in Ages
  PROVE  /\ Aged(requests, age) \in Seq(Frame)
         /\ DOMAIN Aged(requests, age) = DOMAIN requests
<1>1. \A f \in Frame : [f EXCEPT !.age = age] \in Frame
  BY DEF Frame
<1>2. DOMAIN requests = 1 .. Len(requests) /\ Len(requests) \in Nat
  OBVIOUS
<1>3. \A i \in 1 .. Len(requests) : [requests[i] EXCEPT !.age = age] \in Frame
  BY <1>1, <1>2, ElementOfSeq
<1> QED
  BY <1>2, <1>3 DEF Aged

(* Left makes no request one of an earlier call.                           *)
LEMMA LeftFacts ==
  ASSUME NEW requests \in Seq(Frame)
  PROVE  /\ Left(requests) \in Seq(Frame)
         /\ Len(Left(requests)) = Len(requests)
         /\ \A i \in 1 .. Len(requests) :
              /\ Left(requests)[i].kind = requests[i].kind
              /\ Left(requests)[i].age = "before" => requests[i].age = "before"
<1>1. \A f \in Frame : /\ [f EXCEPT !.age = "call"] \in Frame
                         /\ [f EXCEPT !.age = "call"].kind = f.kind
                         /\ [f EXCEPT !.age = "call"].age = "call"
  BY DEF Frame, Ages
<1>2. DOMAIN requests = 1 .. Len(requests) /\ Len(requests) \in Nat
  OBVIOUS
<1>3. \A i \in 1 .. Len(requests) : requests[i] \in Frame
  BY ElementOfSeq
<1>4. \A i \in 1 .. Len(requests) :
        /\ Left(requests)[i] \in Frame
        /\ Left(requests)[i].kind = requests[i].kind
        /\ Left(requests)[i].age = "before" => requests[i].age = "before"
  BY <1>1, <1>2, <1>3 DEF Left
<1>5. Left(requests) \in Seq(Frame) /\ Len(Left(requests)) = Len(requests)
  BY <1>1, <1>2, <1>3 DEF Left
<1> QED
  BY <1>4, <1>5

(* Closing a socket leaves the bridge with requests it had.                *)
LEMMA CloseFacts ==
  ASSUME NEW requests \in Seq(Frame), CloseSocket(requests)
  PROVE  /\ pending' \in Seq(Frame)
         /\ stream' = <<>>
         /\ \A i \in DOMAIN pending' :
              /\ i \in DOMAIN requests
              /\ pending'[i].kind = requests[i].kind
              /\ pending'[i].age = "before" => requests[i].age = "before"
<1>1. PICK n \in 0 .. Len(requests) : pending' = SubSeq(Left(requests), 1, n)
  BY DEF CloseSocket
<1>2. /\ pending' \in Seq(Frame)
      /\ DOMAIN pending' = 1 .. n
      /\ \A i \in 1 .. n : pending'[i] = Left(requests)[i]
  BY <1>1, LeftFacts
<1> QED
  BY <1>2, LeftFacts DEF CloseSocket

-----------------------------------------------------------------------------
(* Types.                                                                  *)

(* The request of an attempt is a frame.                                   *)
LEMMA RequestType ==
  ASSUME TypeOK, pc # "idle"
  PROVE  /\ Request \in Frame
         /\ call \in Call
         /\ call \in Calls
BY CallAssumption DEF TypeOK, Request, Frame, Call, Ages

(* A lost round starts another one or fails the call.                      *)
LEMMA RoundFailedFacts ==
  ASSUME TypeOK, RoundFailed
  PROVE  /\ pc' \in {"idle", "send"}
         /\ attempt' \in 1 .. Retries /\ round' \in 1 .. Attempts
         /\ status' \in {status, "failed"} /\ reply' \in {reply, None}
         /\ UNCHANGED <<call, kept>>
<1>1. DecodeAttempts(call.kind) \in 1 .. Attempts
  BY DecodeAttemptsBound
<1> QED
  BY <1>1, BoundAssumption DEF RoundFailed, Return, TypeOK

(* A lost attempt starts another one or loses the round.                   *)
LEMMA AttemptFailedFacts ==
  ASSUME TypeOK, AttemptFailed
  PROVE  /\ pc' \in {"idle", "send"}
         /\ attempt' \in 1 .. Retries /\ round' \in 1 .. Attempts
         /\ status' \in {status, "failed"} /\ reply' \in {reply, None}
         /\ UNCHANGED <<call, kept>>
<1>1. CASE attempt < Retries
  BY <1>1, BoundAssumption DEF AttemptFailed, TypeOK
<1>2. CASE ~(attempt < Retries)
  BY <1>2, RoundFailedFacts DEF AttemptFailed
<1> QED
  BY <1>1, <1>2

(* What the bridge holds once it was sent the request.                     *)
LEMMA TakenType ==
  ASSUME TypeOK, pc # "idle",
         NEW taken, taken = IF Len(pending) < MaxPending
                              THEN Append(pending, Request) ELSE pending
  PROVE  /\ taken \in Seq(Frame)
         /\ \A i \in DOMAIN taken :
              \/ i \in DOMAIN pending /\ taken[i] = pending[i]
              \/ taken[i] = Request
<1>1. Request \in Frame /\ pending \in Seq(Frame)
  BY RequestType DEF TypeOK
<1>2. CASE Len(pending) < MaxPending
  <2>1. taken = Append(pending, Request)
    BY <1>2
  <2>2. /\ taken \in Seq(Frame)
        /\ DOMAIN taken = 1 .. Len(pending) + 1
        /\ \A i \in 1 .. Len(pending) : taken[i] = pending[i]
        /\ taken[Len(pending) + 1] = Request
    BY <1>1, <2>1, AppendProperties
  <2> QED
    BY <1>1, <2>2
<1>3. CASE ~(Len(pending) < MaxPending)
  BY <1>1, <1>3
<1> QED
  BY <1>2, <1>3

(* Every step keeps the types.                                             *)
LEMMA TypeStep ==
  ASSUME TypeOK, [Next]_vars
  PROVE  TypeOK'
<1> USE BoundAssumption
<1>0. /\ pending \in Seq(Frame) /\ stream \in Seq(Frame) /\ kept \in Seq(Frame)
      /\ <<>> \in Seq(Frame)
  BY DEF TypeOK
<1>1. ASSUME NEW c \in Calls, Begin(c) PROVE TypeOK'
  <2>1. pending' \in Seq(Frame) /\ kept' \in Seq(Frame)
    BY <1>0, <1>1, AgedFacts DEF Begin, Ages
  <2>2. c # None
    BY CallAssumption, NoneAssumption
  <2> QED
    BY <1>1, <2>1, <2>2 DEF Begin, TypeOK
<1>2. CASE SendFrame
  <2> DEFINE taken == IF Len(pending) < MaxPending THEN Append(pending, Request)
                      ELSE pending
  <2>1. pc = "send" /\ call # None
    BY <1>2 DEF SendFrame, TypeOK
  <2>2. taken \in Seq(Frame)
    BY <2>1, TakenType
  <2>3. CASE call.kind \in BmsWrites
    <3>1. CloseSocket(taken) /\ Return("sent", None) /\ UNCHANGED faults
          /\ frames' = frames + 1
      BY <1>2, <2>3 DEF SendFrame
    <3>2. pending' \in Seq(Frame) /\ stream' = <<>>
      BY <2>2, <3>1, CloseFacts
    <3> QED
      BY <1>0, <3>1, <3>2 DEF Return, TypeOK
  <2>4. CASE call.kind \notin BmsWrites
    <3>1. /\ pc' = "read" /\ pending' = taken
          /\ faults' \in {faults, faults + 1} /\ frames' = frames + 1
          /\ UNCHANGED <<call, attempt, round, status, reply, stream, kept>>
      BY <1>2, <2>4 DEF SendFrame
    <3> QED
      BY <2>1, <2>2, <3>1 DEF TypeOK
  <2> QED
    BY <2>3, <2>4
<1>3. CASE SendFails
  BY <1>3, AttemptFailedFacts DEF SendFails, TypeOK, bridge
<1>4. CASE ReadFails
  <2>1. pending' \in Seq(Frame) /\ stream' = <<>>
    BY <1>0, <1>4, CloseFacts DEF ReadFails
  <2>2. faults' \in {faults, faults + 1} /\ UNCHANGED frames
    BY <1>4 DEF ReadFails
  <2>3. AttemptFailed /\ call # None
    BY <1>4 DEF ReadFails, TypeOK
  <2> QED
    BY <1>0, <2>1, <2>2, <2>3, AttemptFailedFacts DEF TypeOK
<1>5. CASE ReadFrame
  <2>1. pending' \in Seq(Frame) /\ stream' = <<>>
    BY <1>0, <1>5, CloseFacts DEF ReadFrame
  <2>2. UNCHANGED <<faults, frames>> /\ call # None
    BY <1>5 DEF ReadFrame, TypeOK
  <2>3. CASE Return("ok", Head(stream))
    <3>1. Head(stream) \in Frame
      BY <1>0, <1>5, HeadTailProperties DEF ReadFrame
    <3> QED
      BY <1>0, <2>1, <2>2, <2>3, <3>1 DEF Return, TypeOK
  <2>4. CASE RoundFailed
    BY <1>0, <2>1, <2>2, <2>4, RoundFailedFacts DEF TypeOK
  <2> QED
    BY <1>5, <2>3, <2>4 DEF ReadFrame
<1>6. CASE ReadUnreadable
  <2>1. pending' \in Seq(Frame) /\ stream' = <<>>
    BY <1>0, <1>6, CloseFacts DEF ReadUnreadable
  <2>2. /\ faults' = faults + Retries /\ UNCHANGED frames
        /\ RoundFailed /\ call # None
    BY <1>6 DEF ReadUnreadable, TypeOK
  <2>3. faults' \in Nat
    BY <1>0, <2>2, BoundAssumption DEF TypeOK
  <2> QED
    BY <1>0, <2>1, <2>2, <2>3, RoundFailedFacts DEF TypeOK
<1>7. CASE Serve
  <2>1. Head(pending) \in Frame /\ Tail(pending) \in Seq(Frame)
    BY <1>0, <1>7, HeadTailProperties DEF Serve
  <2>2. Append(stream, Head(pending)) \in Seq(Frame)
    BY <1>0, <2>1
  <2>3. stream' \in Seq(Frame) /\ (pc # "read" => stream' = stream)
    BY <1>0, <1>7, <2>2 DEF Serve
  <2> QED
    BY <1>7, <2>1, <2>3 DEF Serve, TypeOK, client, history
<1>8. CASE Lose
  <2>1. Tail(pending) \in Seq(Frame)
    BY <1>0, <1>8, HeadTailProperties DEF Lose
  <2>2. faults' \in {faults, faults + 1}
    BY <1>8 DEF Lose
  <2> QED
    BY <1>8, <2>1, <2>2 DEF Lose, TypeOK, client
<1>9. CASE UNCHANGED vars
  BY <1>9 DEF TypeOK, vars, client, bridge, history
<1> QED
  BY <1>1, <1>2, <1>3, <1>4, <1>5, <1>6, <1>7, <1>8, <1>9 DEF Next, Client

(* The types hold in every state.                                          *)
THEOREM TypesHold == Spec => []TypeOK
<1>1. Init => TypeOK
  BY BoundAssumption DEF Init, TypeOK
<1>2. TypeOK /\ [Next]_vars => TypeOK'
  BY TypeStep
<1> QED
  BY <1>1, <1>2, PTL DEF Spec

-----------------------------------------------------------------------------
(* The invariant.                                                          *)

(* What the loss of a round makes of the count: nothing is sent.           *)
LEMMA RoundFailedCounts ==
  ASSUME TypeOK, RoundFailed, pc # "idle", frames' = frames,
         round <= DecodeAttempts(call.kind),
         frames <= Retries * (round - 1) + Retries,
         call.kind \in BmsWrites => frames = 0
  PROVE  Counted' /\ FramesBounded'
<1>1. /\ DecodeAttempts(call.kind) \in Nat
      /\ call.kind \in BmsWrites => DecodeAttempts(call.kind) = 1
  BY DecodeAttemptsBound
<1>2. round \in Nat \ {0} /\ Retries \in Nat \ {0} /\ frames \in Nat
  BY BoundAssumption DEF TypeOK
<1>3. frames <= Retries * round
  BY <1>2, OneMoreRound
<1>4. CASE round < DecodeAttempts(call.kind)
  <2>1. pc' = "send" /\ attempt' = 1 /\ round' = round + 1 /\ call' = call
    BY <1>4 DEF RoundFailed
  <2>2. Retries * (round' - 1) + attempt' - 1 = Retries * round
    BY <1>2, <2>1, OneMoreRound
  <2>3. Counted'
    BY <1>1, <1>2, <1>3, <1>4, <2>1, <2>2 DEF Counted
  <2>4. Retries * round <= Retries * DecodeAttempts(call.kind)
    BY <1>1, <1>2, RoundsMonotonic
  <2>5. Retries * DecodeAttempts(call.kind) \in Nat /\ Retries * round \in Nat
    BY <1>1, <1>2
  <2> QED
    BY <1>2, <1>3, <2>1, <2>3, <2>4, <2>5 DEF FramesBounded
<1>5. CASE ~(round < DecodeAttempts(call.kind))
  <2>1. pc' = "idle" /\ call' = call
    BY <1>5 DEF RoundFailed, Return
  <2>2. round = DecodeAttempts(call.kind)
    BY <1>1, <1>2, <1>5
  <2> QED
    BY <1>2, <1>3, <2>1, <2>2 DEF Counted, FramesBounded
<1> QED
  BY <1>4, <1>5

(* What the loss of an attempt makes of the count.                         *)
LEMMA AttemptFailedCounts ==
  ASSUME TypeOK, FramesBounded, AttemptFailed, pc # "idle", frames' = frames,
         round <= DecodeAttempts(call.kind),
         frames <= Retries * (round - 1) + attempt,
         call.kind \in BmsWrites => frames = 0
  PROVE  Counted' /\ FramesBounded'
<1>1. /\ round \in Nat \ {0} /\ Retries \in Nat \ {0} /\ frames \in Nat
      /\ attempt \in 1 .. Retries /\ Retries * (round - 1) \in Nat
  BY BoundAssumption, OneMoreRound DEF TypeOK
<1>2. CASE attempt < Retries
  <2>1. /\ pc' = "send" /\ attempt' = attempt + 1
        /\ UNCHANGED <<call, round, status, reply, kept>>
    BY <1>2 DEF AttemptFailed
  <2> QED
    BY <1>1, <2>1 DEF Counted, FramesBounded
<1>3. CASE ~(attempt < Retries)
  <2>1. RoundFailed
    BY <1>3 DEF AttemptFailed
  <2>2. frames <= Retries * (round - 1) + Retries
    BY <1>1, <1>3
  <2> QED
    BY <2>1, <2>2, RoundFailedCounts
<1> QED
  BY <1>2, <1>3

(* Every step keeps the count of frames.                                   *)
LEMMA CountStep ==
  ASSUME TypeOK, Counted, FramesBounded, [Next]_vars
  PROVE  Counted' /\ FramesBounded'
<1>0. /\ round \in Nat \ {0} /\ Retries \in Nat \ {0} /\ frames \in Nat
      /\ attempt \in 1 .. Retries /\ Retries * (round - 1) \in Nat
      /\ pc # "idle" => call # None
  BY BoundAssumption, OneMoreRound DEF TypeOK
<1>1. ASSUME NEW c \in Calls, Begin(c) PROVE Counted' /\ FramesBounded'
  <2>1. /\ pc' = "send" /\ round' = 1 /\ attempt' = 1 /\ frames' = 0 /\ call' = c
    BY <1>1 DEF Begin
  <2>2. /\ DecodeAttempts(c.kind) \in Nat \ {0}
        /\ Retries * DecodeAttempts(c.kind) \in Nat
        /\ Retries * (1 - 1) = 0
    BY <1>0, DecodeAttemptsBound
  <2> QED
    BY <2>1, <2>2 DEF Counted, FramesBounded
<1>2. CASE SendFrame
  <2>1. /\ pc = "send" /\ frames' = frames + 1
        /\ UNCHANGED <<call, attempt, round>>
        /\ pc' = IF call.kind \in BmsWrites THEN "idle" ELSE "read"
    BY <1>2 DEF SendFrame, Return
  <2>2. /\ round <= DecodeAttempts(call.kind)
        /\ frames + 1 <= Retries * (round - 1) + attempt
        /\ call.kind \in BmsWrites => frames = 0
    BY <1>0, <2>1 DEF Counted
  <2>3. frames + 1 <= Retries * round /\ Retries * round \in Nat
    BY <1>0, <2>2, OneMoreRound
  <2>4. /\ DecodeAttempts(call.kind) \in Nat
        /\ Retries * DecodeAttempts(call.kind) \in Nat
        /\ Retries * round <= Retries * DecodeAttempts(call.kind)
    BY <1>0, <2>2, DecodeAttemptsBound, RoundsMonotonic
  <2> QED
    BY <1>0, <2>1, <2>2, <2>3, <2>4 DEF Counted, FramesBounded
<1>3. CASE SendFails
  <2>1. AttemptFailed /\ pc = "send" /\ frames' = frames
    BY <1>3 DEF SendFails
  <2> QED
    BY <1>0, <2>1, AttemptFailedCounts DEF Counted
<1>4. CASE ReadFails
  <2>1. AttemptFailed /\ pc = "read" /\ frames' = frames
    BY <1>4 DEF ReadFails
  <2> QED
    BY <1>0, <2>1, AttemptFailedCounts DEF Counted
<1>5. CASE ReadFrame
  <2>1. pc = "read" /\ frames' = frames
    BY <1>5 DEF ReadFrame
  <2>2. CASE Return("ok", Head(stream))
    BY <2>1, <2>2 DEF Return, Counted, FramesBounded
  <2>3. CASE RoundFailed
    BY <1>0, <2>1, <2>3, RoundFailedCounts DEF Counted
  <2> QED
    BY <1>5, <2>2, <2>3 DEF ReadFrame
<1>6. CASE ReadUnreadable
  <2>1. pc = "read" /\ frames' = frames /\ RoundFailed
    BY <1>6 DEF ReadUnreadable
  <2> QED
    BY <1>0, <2>1, RoundFailedCounts DEF Counted
<1>7. CASE Serve \/ Lose \/ UNCHANGED vars
  BY <1>7 DEF Serve, Lose, vars, client, history, Counted, FramesBounded
<1> QED
  BY <1>1, <1>2, <1>3, <1>4, <1>5, <1>6, <1>7 DEF Next, Client

(* Retries and decode attempts together bound the frames of every call.    *)
THEOREM FramesAreBounded == Spec => []FramesBounded
<1>1. Init => Counted /\ FramesBounded
  BY DEF Init, Counted, FramesBounded
<1>2. TypeOK /\ Counted /\ FramesBounded /\ [Next]_vars
        => (Counted /\ FramesBounded)'
  BY CountStep
<1> QED
  BY <1>1, <1>2, TypesHold, PTL DEF Spec

(* What the bridge still holds of a call before was kept when this one     *)
(* began, through every step.                                              *)
LEMMA StaleStep ==
  ASSUME TypeOK, StaleInvariant, [Next]_vars
  PROVE  StaleInvariant'
<1>0. /\ pending \in Seq(Frame) /\ stream \in Seq(Frame)
      /\ DOMAIN pending = 1 .. Len(pending) /\ DOMAIN stream = 1 .. Len(stream)
      /\ Len(pending) \in Nat /\ Len(stream) \in Nat
  BY DEF TypeOK
<1>1. ASSUME NEW c \in Calls, Begin(c) PROVE StaleInvariant'
  <2>1. kept' = pending' /\ UNCHANGED stream /\ pc = "idle" /\ status' = "none"
    BY <1>1 DEF Begin
  <2>2. stream = <<>>
    BY <2>1 DEF TypeOK
  <2> QED
    BY <2>1, <2>2 DEF StaleInvariant, WasKept, StaleOnlyIfKept
<1>2. CASE SendFrame
  <2> DEFINE taken == IF Len(pending) < MaxPending THEN Append(pending, Request)
                      ELSE pending
  <2>1. pc = "send" /\ UNCHANGED kept /\ status = "none"
    BY <1>2 DEF SendFrame, Return, StaleInvariant
  <2>2. /\ taken \in Seq(Frame)
        /\ \A i \in DOMAIN taken :
             \/ i \in DOMAIN pending /\ taken[i] = pending[i]
             \/ taken[i] = Request
    BY <2>1, TakenType
  <2>3. Request.age = "attempt"
    BY DEF Request
  <2>4. WasKept(taken)
    BY <2>2, <2>3 DEF StaleInvariant, WasKept
  <2>5. CASE call.kind \in BmsWrites
    <3>1. CloseSocket(taken) /\ Return("sent", None)
      BY <1>2, <2>5 DEF SendFrame
    <3>2. /\ stream' = <<>>
          /\ \A i \in DOMAIN pending' :
               /\ i \in DOMAIN taken
               /\ pending'[i].kind = taken[i].kind
               /\ pending'[i].age = "before" => taken[i].age = "before"
      BY <2>2, <3>1, CloseFacts
    <3> HIDE DEF taken
    <3> QED
      BY <2>1, <2>4, <3>1, <3>2 DEF Return, StaleInvariant, WasKept, StaleOnlyIfKept
  <2>6. CASE call.kind \notin BmsWrites
    <3>1. /\ pc' = "read" /\ pending' = taken
          /\ UNCHANGED <<call, attempt, round, status, reply, stream, kept>>
      BY <1>2, <2>6 DEF SendFrame
    <3> HIDE DEF taken
    <3> QED
      BY <2>1, <2>4, <3>1 DEF StaleInvariant, WasKept, StaleOnlyIfKept
  <2> QED
    BY <2>5, <2>6
<1>3. CASE SendFails
  <2>1. pc # "idle" /\ UNCHANGED <<pending, stream>>
    BY <1>3 DEF SendFails, bridge
  <2>2. UNCHANGED kept /\ status' \in {"none", "failed"}
        /\ (pc' # "idle" => status' = "none")
    BY <1>3, <2>1 DEF SendFails, AttemptFailed, RoundFailed, Return, StaleInvariant
  <2> QED
    BY <2>1, <2>2 DEF StaleInvariant, WasKept, StaleOnlyIfKept
<1>4. CASE ReadFails
  <2>1. /\ stream' = <<>>
        /\ \A i \in DOMAIN pending' :
             /\ i \in DOMAIN pending
             /\ pending'[i].kind = pending[i].kind
             /\ pending'[i].age = "before" => pending[i].age = "before"
    BY <1>0, <1>4, CloseFacts DEF ReadFails
  <2>2. UNCHANGED kept /\ status' \in {"none", "failed"}
        /\ (pc' # "idle" => status' = "none")
    BY <1>4 DEF ReadFails, AttemptFailed, RoundFailed, Return, StaleInvariant
  <2> QED
    BY <2>1, <2>2 DEF StaleInvariant, WasKept, StaleOnlyIfKept
<1>5. CASE ReadFrame
  <2>1. /\ stream' = <<>>
        /\ \A i \in DOMAIN pending' :
             /\ i \in DOMAIN pending
             /\ pending'[i].kind = pending[i].kind
             /\ pending'[i].age = "before" => pending[i].age = "before"
    BY <1>0, <1>5, CloseFacts DEF ReadFrame
  <2>2. UNCHANGED kept /\ (pc' # "idle" => status' = "none")
    BY <1>5 DEF ReadFrame, RoundFailed, Return, StaleInvariant
  <2>3. WasKept(pending)' /\ WasKept(stream)'
    BY <2>1, <2>2 DEF StaleInvariant, WasKept
  <2>4. CASE Accepts(call.kind, Head(stream))
    <3>1. status' = "ok" /\ reply' = Head(stream) /\ call' = call
      BY <1>5, <2>4 DEF ReadFrame, Return
    <3>2. Head(stream) = stream[1] /\ 1 \in DOMAIN stream
      BY <1>0, <1>5 DEF ReadFrame
    <3> QED
      BY <2>2, <2>3, <2>4, <3>1, <3>2
      DEF StaleInvariant, WasKept, StaleOnlyIfKept, Accepts
  <2>5. CASE ~Accepts(call.kind, Head(stream))
    <3>1. status' \in {"none", "failed"}
      BY <1>5, <2>5 DEF ReadFrame, RoundFailed, Return, StaleInvariant
    <3> QED
      BY <2>2, <2>3, <3>1 DEF StaleInvariant, StaleOnlyIfKept
  <2> QED
    BY <2>4, <2>5
<1>6. CASE ReadUnreadable
  <2>1. /\ stream' = <<>>
        /\ \A i \in DOMAIN pending' :
             /\ i \in DOMAIN pending
             /\ pending'[i].kind = pending[i].kind
             /\ pending'[i].age = "before" => pending[i].age = "before"
    BY <1>0, <1>6, CloseFacts DEF ReadUnreadable
  <2>2. UNCHANGED kept /\ status' \in {"none", "failed"}
        /\ (pc' # "idle" => status' = "none")
    BY <1>6 DEF ReadUnreadable, RoundFailed, Return, StaleInvariant
  <2> QED
    BY <2>1, <2>2 DEF StaleInvariant, WasKept, StaleOnlyIfKept
<1>7. CASE Serve
  <2>1. /\ pending # <<>> /\ pending' = Tail(pending)
        /\ stream' \in {stream, Append(stream, Head(pending))}
        /\ UNCHANGED <<call, status, reply, kept, pc>>
    BY <1>7 DEF Serve, client, history
  <2>2. \A i \in DOMAIN pending' :
          i + 1 \in DOMAIN pending /\ pending'[i] = pending[i + 1]
    BY <1>0, <2>1
  <2>3. Head(pending) = pending[1] /\ 1 \in DOMAIN pending
    BY <1>0, <2>1
  <2>4. Head(pending) \in Frame
    BY <1>0, <2>1, HeadTailProperties
  <2>5. \A i \in DOMAIN stream' :
          \/ i \in DOMAIN stream /\ stream'[i] = stream[i]
          \/ stream'[i] = pending[1]
    <3>1. CASE stream' = stream
      BY <3>1
    <3>2. CASE stream' = Append(stream, Head(pending))
      BY <1>0, <2>3, <2>4, <3>2, AppendProperties
    <3> QED
      BY <2>1, <3>1, <3>2
  <2>6. WasKept(pending)'
    BY <2>1, <2>2 DEF StaleInvariant, WasKept
  <2>7. WasKept(stream)'
    BY <2>1, <2>3, <2>5 DEF StaleInvariant, WasKept
  <2> QED
    BY <2>1, <2>6, <2>7 DEF StaleInvariant, StaleOnlyIfKept
<1>8. CASE Lose
  <2>1. /\ pending # <<>> /\ pending' = Tail(pending)
        /\ UNCHANGED <<call, status, reply, kept, pc, stream>>
    BY <1>8 DEF Lose, client
  <2>2. \A i \in DOMAIN pending' :
          i + 1 \in DOMAIN pending /\ pending'[i] = pending[i + 1]
    BY <1>0, <2>1
  <2> QED
    BY <2>1, <2>2 DEF StaleInvariant, WasKept, StaleOnlyIfKept
<1>9. CASE UNCHANGED vars
  BY <1>9 DEF StaleInvariant, WasKept, StaleOnlyIfKept, vars, client, bridge, history
<1> QED
  BY <1>1, <1>2, <1>3, <1>4, <1>5, <1>6, <1>7, <1>8, <1>9 DEF Next, Client

(* A frame of an earlier call is an answer only where the bridge had kept  *)
(* a request for the same command when the call began.                     *)
THEOREM StaleAnswersWereKept == Spec => []StaleOnlyIfKept
<1>1. Init => StaleInvariant
  BY DEF Init, StaleInvariant, WasKept, StaleOnlyIfKept
<1>2. TypeOK /\ StaleInvariant /\ [Next]_vars => StaleInvariant'
  BY StaleStep
<1>3. StaleInvariant => StaleOnlyIfKept
  BY DEF StaleInvariant
<1> QED
  BY <1>1, <1>2, <1>3, TypesHold, PTL DEF Spec

-----------------------------------------------------------------------------
(* What a failed call has met.                                             *)

StrayCount(requests) == Cardinality(StraysAmong(call.kind, requests))

(* Only an earlier call's request can be a stray: those of this call are   *)
(* of its own kind, and a BMS write has no answer.                         *)
OwnRequests ==
  /\ \A i \in DOMAIN pending :
       pending[i].age # "before" => pending[i].kind = call.kind
  /\ \A i \in DOMAIN stream :
       /\ stream[i].age # "before" => stream[i].kind = call.kind
       /\ stream[i].kind \notin BmsWrites

(* Every round that is over was paid for, with a stray or with Retries     *)
(* faults, every attempt of this one with a fault, and so is the running   *)
(* attempt as soon as its request is lost.  The strays that are still      *)
(* under way have paid for nothing yet.                                    *)
Paid ==
  pc # "idle" =>
    faults + Retries * StrayCount(kept) >=
      Retries * (round - 1 + StrayCount(pending) + StrayCount(stream))
        + (attempt - 1) + (IF pc = "read" /\ ~InFlight THEN 1 ELSE 0)

ExhaustInvariant == OwnRequests /\ Paid /\ FailsOnlyWhenExhausted

(* Strays can be counted.                                                  *)
LEMMA StraysFinite ==
  ASSUME NEW kind, NEW requests \in Seq(Frame)
  PROVE  /\ IsFiniteSet(StraysAmong(kind, requests))
         /\ Cardinality(StraysAmong(kind, requests)) \in Nat
<1>1. DOMAIN requests = 1 .. Len(requests) /\ Len(requests) \in Nat
  OBVIOUS
<1>2. IsFiniteSet(1 .. Len(requests))
  BY <1>1, FS_Interval
<1>3. StraysAmong(kind, requests) \in SUBSET (1 .. Len(requests))
  BY <1>1 DEF StraysAmong
<1> QED
  BY <1>2, <1>3, FS_Subset, FS_CardinalityType

(* There are no more strays in a part of the requests, whatever their age. *)
LEMMA StraysOfPart ==
  ASSUME NEW kind, NEW requests \in Seq(Frame), NEW part \in Seq(Frame),
         \A i \in DOMAIN part :
           i \in DOMAIN requests /\ part[i].kind = requests[i].kind
  PROVE  Cardinality(StraysAmong(kind, part))
           <= Cardinality(StraysAmong(kind, requests))
<1>1. StraysAmong(kind, part) \in SUBSET StraysAmong(kind, requests)
  BY DEF StraysAmong, Accepts
<1> QED
  BY <1>1, StraysFinite, FS_Subset

(* A request more is a stray more, or none.                                *)
LEMMA StraysOfAppend ==
  ASSUME NEW kind, NEW requests \in Seq(Frame), NEW f \in Frame
  PROVE  Cardinality(StraysAmong(kind, Append(requests, f))) =
           Cardinality(StraysAmong(kind, requests))
             + Cardinality(StraysAmong(kind, <<f>>))
<1> DEFINE last == Len(requests) + 1
           all == StraysAmong(kind, Append(requests, f))
           old == StraysAmong(kind, requests)
<1>1. /\ DOMAIN requests = 1 .. Len(requests) /\ Len(requests) \in Nat
      /\ DOMAIN Append(requests, f) = 1 .. last
      /\ \A i \in 1 .. Len(requests) : Append(requests, f)[i] = requests[i]
      /\ Append(requests, f)[last] = f
      /\ DOMAIN <<f>> = {1} /\ <<f>>[1] = f
  BY AppendProperties
<1>2. last \notin old /\ IsFiniteSet(old) /\ Cardinality(old) \in Nat
  <2>1. last \notin old
    BY <1>1 DEF StraysAmong
  <2> QED
    BY <2>1, StraysFinite
<1>3. CASE /\ kind \notin BmsWrites /\ ~Accepts(kind, f)
           /\ f.kind \notin BmsWrites
  <2>1. all = old \union {last}
    BY <1>1, <1>3 DEF StraysAmong
  <2>2. StraysAmong(kind, <<f>>) = {1}
    BY <1>1, <1>3 DEF StraysAmong
  <2>3. Cardinality(all) = Cardinality(old) + 1
    BY <1>2, <2>1, FS_AddElement
  <2> QED
    BY <2>2, <2>3, FS_Singleton
<1>4. CASE ~(/\ kind \notin BmsWrites /\ ~Accepts(kind, f)
             /\ f.kind \notin BmsWrites)
  <2>1. all = old
    BY <1>1, <1>4 DEF StraysAmong
  <2>2. StraysAmong(kind, <<f>>) = {}
    BY <1>1, <1>4 DEF StraysAmong
  <2>3. Cardinality(StraysAmong(kind, <<f>>)) = 0
    BY <2>2, FS_EmptySet
  <2> QED
    BY <1>2, <2>1, <2>3
<1> QED
  BY <1>3, <1>4

(* The strays of a queue are its first request, if it is one, and those    *)
(* of the rest.                                                            *)
LEMMA StraysOfTail ==
  ASSUME NEW kind, NEW requests \in Seq(Frame), requests # <<>>
  PROVE  Cardinality(StraysAmong(kind, requests)) =
           Cardinality(StraysAmong(kind, <<Head(requests)>>))
             + Cardinality(StraysAmong(kind, Tail(requests)))
<1> DEFINE f == Head(requests)
           all == StraysAmong(kind, requests)
           rest == StraysAmong(kind, Tail(requests))
           next == [i \in rest |-> i + 1]
<1>1. /\ DOMAIN requests = 1 .. Len(requests) /\ Len(requests) \in Nat \ {0}
      /\ f = requests[1] /\ Tail(requests) \in Seq(Frame)
      /\ DOMAIN Tail(requests) = 1 .. Len(requests) - 1
      /\ \A i \in 1 .. Len(requests) - 1 : Tail(requests)[i] = requests[i + 1]
      /\ DOMAIN <<f>> = {1} /\ <<f>>[1] = f
  BY HeadTailProperties
<1>2. /\ IsFiniteSet(all) /\ Cardinality(all) \in Nat
      /\ IsFiniteSet(rest) /\ Cardinality(rest) \in Nat
  BY <1>1, StraysFinite
<1>3. Cardinality(all \ {1}) = Cardinality(rest)
  <2>1. \A i \in rest : i \in Int /\ i + 1 \in all \ {1}
    BY <1>1 DEF StraysAmong
  <2>2. \A j \in all \ {1} : j - 1 \in rest /\ j = (j - 1) + 1
    BY <1>1 DEF StraysAmong
  <2>3. next \in Bijection(rest, all \ {1})
    <3> HIDE DEF all, rest
    <3>1. next \in [rest -> all \ {1}]
      BY <2>1
    <3>2. \A i, j \in rest : next[i] = next[j] => i = j
      BY <2>1
    <3>3. \A j \in all \ {1} : \E i \in rest : next[i] = j
      BY <2>2
    <3> QED
      BY <3>1, <3>2, <3>3 DEF Bijection, Injection, Surjection, IsInjective
  <2> QED
    BY <1>2, <2>3, FS_Bijection DEF ExistsBijection
<1>4. /\ 1 \in all <=> StraysAmong(kind, <<f>>) = {1}
      /\ 1 \notin all <=> StraysAmong(kind, <<f>>) = {}
  BY <1>1 DEF StraysAmong
<1>5. CASE 1 \in all
  <2>1. Cardinality(all \ {1}) = Cardinality(all) - 1
    BY <1>2, <1>5, FS_RemoveElement
  <2>2. Cardinality(StraysAmong(kind, <<f>>)) = 1
    BY <1>4, <1>5, FS_Singleton
  <2> HIDE DEF all, rest
  <2> QED
    BY <1>2, <1>3, <2>1, <2>2 DEF all, rest
<1>6. CASE 1 \notin all
  <2>1. Cardinality(all \ {1}) = Cardinality(all)
    BY <1>2, <1>6, FS_RemoveElement
  <2>2. Cardinality(StraysAmong(kind, <<f>>)) = 0
    BY <1>4, <1>6, FS_EmptySet
  <2> HIDE DEF all, rest
  <2> QED
    BY <1>2, <1>3, <2>1, <2>2 DEF all, rest
<1> QED
  BY <1>5, <1>6

(* An empty socket holds no stray, and a request of the call is none.      *)
LEMMA NoStrays ==
  ASSUME NEW kind
  PROVE  /\ Cardinality(StraysAmong(kind, <<>>)) = 0
         /\ \A f : f.kind = kind => Cardinality(StraysAmong(kind, <<f>>)) = 0
<1>1. StraysAmong(kind, <<>>) = {}
  BY DEF StraysAmong
<1>2. \A f : f.kind = kind => StraysAmong(kind, <<f>>) = {}
  BY DEF StraysAmong, Accepts
<1> QED
  BY <1>1, <1>2, FS_EmptySet

(* The numbers of Paid are natural, and what Retries multiplies adds up.   *)
LEMMA PaidTypes ==
  ASSUME TypeOK
  PROVE  /\ StrayCount(kept) \in Nat /\ StrayCount(pending) \in Nat
         /\ StrayCount(stream) \in Nat /\ faults \in Nat
         /\ Retries * StrayCount(kept) \in Nat
         /\ Retries \in Nat \ {0} /\ round \in Nat \ {0}
         /\ attempt \in 1 .. Retries
<1>1. /\ StrayCount(kept) \in Nat /\ StrayCount(pending) \in Nat
      /\ StrayCount(stream) \in Nat
  BY StraysFinite DEF TypeOK, StrayCount
<1> QED
  BY <1>1, BoundAssumption DEF TypeOK

(* A round that was paid for may be lost.                                  *)
LEMMA RoundFailedPaid ==
  ASSUME TypeOK, TypeOK', RoundFailed, status = "none",
         round <= DecodeAttempts(call.kind),
         NEW strays \in Nat, StrayCount(pending)' <= strays, stream' = <<>>,
         faults' + Retries * StrayCount(kept) >= Retries * (round + strays)
  PROVE  Paid' /\ FailsOnlyWhenExhausted'
<1>1. UNCHANGED <<call, kept>>
  BY RoundFailedFacts
<1>2. StrayCount(kept)' = StrayCount(kept) /\ StrayCount(stream)' = 0
  BY <1>1, NoStrays DEF StrayCount
<1>3. /\ Retries \in Nat \ {0} /\ round \in Nat \ {0} /\ faults' \in Nat
      /\ StrayCount(pending)' \in Nat
      /\ Retries * StrayCount(kept) \in Nat
      /\ DecodeAttempts(call.kind) \in Nat
  <2>1. faults' \in Nat /\ StrayCount(pending)' \in Nat
    BY StraysFinite DEF TypeOK, StrayCount
  <2> QED
    BY <2>1, PaidTypes, DecodeAttemptsBound
<1>4. CASE round < DecodeAttempts(call.kind)
  <2>1. /\ pc' = "send" /\ attempt' = 1 /\ round' = round + 1
        /\ status' = "none"
    BY <1>4 DEF RoundFailed
  <2>2. Retries * (round + StrayCount(pending)') <= Retries * (round + strays)
    BY <1>3, RoundsMonotonic
  <2>3. /\ Retries * (round + StrayCount(pending)') \in Nat
        /\ Retries * (round + strays) \in Nat
    BY <1>3
  <2>4. round' - 1 + StrayCount(pending)' + StrayCount(stream)'
          = round + StrayCount(pending)'
    BY <1>2, <1>3, <2>1
  <2> QED
    BY <1>2, <1>3, <2>1, <2>2, <2>3, <2>4 DEF Paid, FailsOnlyWhenExhausted
<1>5. CASE ~(round < DecodeAttempts(call.kind))
  <2>1. pc' = "idle" /\ round = DecodeAttempts(call.kind)
    BY <1>3, <1>5 DEF RoundFailed, Return
  <2>2. /\ Retries * round <= Retries * (round + strays)
        /\ Retries * round \in Nat /\ Retries * (round + strays) \in Nat
    BY <1>3, RoundsMonotonic
  <2>3. faults' + Retries * StrayCount(kept) >= Retries * round
    BY <1>3, <2>2
  <2> QED
    BY <1>1, <1>2, <2>1, <2>3
    DEF Paid, FailsOnlyWhenExhausted, Strays, StrayCount
<1> QED
  BY <1>4, <1>5

(* So may an attempt.                                                      *)
LEMMA AttemptFailedPaid ==
  ASSUME TypeOK, TypeOK', AttemptFailed, status = "none",
         round <= DecodeAttempts(call.kind),
         NEW strays \in Nat, StrayCount(pending)' <= strays, stream' = <<>>,
         faults' + Retries * StrayCount(kept)
           >= Retries * (round - 1 + strays) + attempt
  PROVE  Paid' /\ FailsOnlyWhenExhausted'
<1>1. /\ Retries \in Nat \ {0} /\ round \in Nat \ {0} /\ faults' \in Nat
      /\ StrayCount(pending)' \in Nat /\ attempt \in 1 .. Retries
      /\ Retries * StrayCount(kept) \in Nat
  <2>1. faults' \in Nat /\ StrayCount(pending)' \in Nat
    BY StraysFinite DEF TypeOK, StrayCount
  <2> QED
    BY <2>1, PaidTypes
<1>2. CASE attempt < Retries
  <2>1. /\ pc' = "send" /\ attempt' = attempt + 1
        /\ UNCHANGED <<call, round, status, kept>>
    BY <1>2 DEF AttemptFailed
  <2>2. StrayCount(kept)' = StrayCount(kept) /\ StrayCount(stream)' = 0
    BY <2>1, NoStrays DEF StrayCount
  <2>3. /\ round - 1 + StrayCount(pending)' \in Nat
        /\ round - 1 + strays \in Nat
        /\ round - 1 + StrayCount(pending)' <= round - 1 + strays
    BY <1>1
  <2>4. /\ Retries * (round - 1 + StrayCount(pending)')
             <= Retries * (round - 1 + strays)
        /\ Retries * (round - 1 + StrayCount(pending)') \in Nat
        /\ Retries * (round - 1 + strays) \in Nat
    BY <1>1, <2>3, RoundsMonotonic
  <2>5. round' - 1 + StrayCount(pending)' + StrayCount(stream)'
          = round - 1 + StrayCount(pending)'
    BY <1>1, <2>1, <2>2
  <2> QED
    BY <1>1, <2>1, <2>2, <2>4, <2>5 DEF Paid, FailsOnlyWhenExhausted
<1>3. CASE ~(attempt < Retries)
  <2>1. RoundFailed /\ attempt = Retries
    BY <1>1, <1>3 DEF AttemptFailed
  <2>2. Retries * (round - 1 + strays) + Retries = Retries * (round + strays)
    BY <1>1
  <2>3. faults' + Retries * StrayCount(kept) >= Retries * (round + strays)
    BY <2>1, <2>2
  <2> QED
    BY <2>1, <2>3, RoundFailedPaid
<1> QED
  BY <1>2, <1>3

(* The requests that a closed socket leaves behind.                        *)
LEMMA ClosePaid ==
  ASSUME TypeOK, NEW requests \in Seq(Frame), CloseSocket(requests),
         UNCHANGED call,
         \A i \in DOMAIN requests :
           requests[i].age # "before" => requests[i].kind = call.kind
  PROVE  /\ OwnRequests'
         /\ StrayCount(pending)' <= StrayCount(requests)
<1>1. /\ pending' \in Seq(Frame) /\ stream' = <<>>
      /\ \A i \in DOMAIN pending' :
           /\ i \in DOMAIN requests
           /\ pending'[i].kind = requests[i].kind
  BY CloseFacts
<1>2. \A i \in DOMAIN pending' :
        requests[i].age = "before" => pending'[i].age = "before"
  <2>1. PICK n \in 0 .. Len(requests) : pending' = SubSeq(Left(requests), 1, n)
    BY DEF CloseSocket
  <2>2. /\ DOMAIN pending' = 1 .. n /\ 1 .. n \subseteq DOMAIN requests
        /\ \A i \in 1 .. n : pending'[i] = Left(requests)[i]
    BY <2>1, LeftFacts
  <2> QED
    BY <2>2 DEF Left
<1>3. OwnRequests'
  BY <1>1, <1>2 DEF OwnRequests
<1>4. StrayCount(pending)' <= StrayCount(requests)
  BY <1>1, StraysOfPart DEF StrayCount
<1> QED
  BY <1>3, <1>4

(* The oldest request leaves the queue: what that changes of the sum.      *)
LEMMA TailPaid ==
  ASSUME TypeOK, pending # <<>>
  PROVE  /\ Head(pending) \in Frame /\ Tail(pending) \in Seq(Frame)
         /\ StrayCount(<<Head(pending)>>) \in Nat
         /\ StrayCount(Tail(pending)) \in Nat
         /\ StrayCount(pending)
              = StrayCount(<<Head(pending)>>) + StrayCount(Tail(pending))
         /\ Head(pending) = pending[1]
         /\ \A i \in DOMAIN pending : i = 1 \/ i - 1 \in DOMAIN Tail(pending)
         /\ \A i \in DOMAIN Tail(pending) :
              i + 1 \in DOMAIN pending /\ Tail(pending)[i] = pending[i + 1]
<1>1. pending \in Seq(Frame)
  BY DEF TypeOK
<1>2. Head(pending) \in Frame /\ Tail(pending) \in Seq(Frame)
  BY <1>1, HeadTailProperties
<1>3. <<Head(pending)>> \in Seq(Frame)
  BY <1>2
<1>4. /\ StrayCount(<<Head(pending)>>) \in Nat
      /\ StrayCount(Tail(pending)) \in Nat
  BY <1>2, <1>3, StraysFinite DEF StrayCount
<1>5. StrayCount(pending)
        = StrayCount(<<Head(pending)>>) + StrayCount(Tail(pending))
  BY <1>1, StraysOfTail DEF StrayCount
<1>6. /\ Head(pending) = pending[1]
      /\ \A i \in DOMAIN pending : i = 1 \/ i - 1 \in DOMAIN Tail(pending)
      /\ \A i \in DOMAIN Tail(pending) :
           i + 1 \in DOMAIN pending /\ Tail(pending)[i] = pending[i + 1]
  BY <1>1, HeadTailProperties
<1> QED
  BY <1>2, <1>4, <1>5, <1>6

(* Fewer strays under way are less to pay.                                 *)
LEMMA LessToPay ==
  ASSUME NEW r \in Nat \ {0}, NEW p \in Nat, NEW q \in Nat, NEW s \in Nat,
         q <= p
  PROVE  /\ Retries * (r - 1 + p + s) \in Nat
         /\ Retries * (r - 1 + q + s) \in Nat
         /\ Retries * (r - 1 + q + s) <= Retries * (r - 1 + p + s)
<1>1. /\ r - 1 + p + s \in Nat /\ r - 1 + q + s \in Nat
      /\ r - 1 + q + s <= r - 1 + p + s
  OBVIOUS
<1> QED
  BY <1>1, BoundAssumption, RoundsMonotonic

(* Serving a request moves it, and what it has to pay, to the socket.      *)
LEMMA ServePaid ==
  ASSUME TypeOK, TypeOK', Counted, ExhaustInvariant, Serve
  PROVE  ExhaustInvariant'
<1>1. /\ pending # <<>> /\ pending' = Tail(pending)
      /\ UNCHANGED <<pc, call, attempt, round, status, reply, kept, faults>>
  BY DEF Serve, client, history
<1> DEFINE f == Head(pending)
<1>2. /\ f \in Frame /\ Tail(pending) \in Seq(Frame)
      /\ StrayCount(<<f>>) \in Nat /\ StrayCount(Tail(pending)) \in Nat
      /\ StrayCount(pending) = StrayCount(<<f>>) + StrayCount(Tail(pending))
      /\ f = pending[1]
      /\ \A i \in DOMAIN pending : i = 1 \/ i - 1 \in DOMAIN Tail(pending)
      /\ \A i \in DOMAIN Tail(pending) :
           i + 1 \in DOMAIN pending /\ Tail(pending)[i] = pending[i + 1]
  BY <1>1, TailPaid
<1>3. /\ StrayCount(kept)' = StrayCount(kept)
      /\ StrayCount(pending)' = StrayCount(Tail(pending))
  BY <1>1 DEF StrayCount
<1>4. FailsOnlyWhenExhausted'
  BY <1>1 DEF ExhaustInvariant, FailsOnlyWhenExhausted, Strays
<1>5. pending \in Seq(Frame) /\ stream \in Seq(Frame) /\ 1 \in DOMAIN pending
  BY <1>1 DEF TypeOK
<1>6. CASE pc = "read" /\ f.kind \notin BmsWrites
  <2>1. stream' = Append(stream, f)
    BY <1>6 DEF Serve
  <2>2. /\ DOMAIN stream' = 1 .. Len(stream) + 1 /\ Len(stream) \in Nat
        /\ DOMAIN stream = 1 .. Len(stream)
        /\ \A i \in 1 .. Len(stream) : stream'[i] = stream[i]
        /\ stream'[Len(stream) + 1] = f
    BY <1>2, <1>5, <2>1, AppendProperties
  <2>3. OwnRequests'
    <3>1. \A i \in DOMAIN pending' :
            pending'[i].age # "before" => pending'[i].kind = call'.kind
      BY <1>1, <1>2 DEF ExhaustInvariant, OwnRequests
    <3>2. f.age # "before" => f.kind = call.kind
      BY <1>2, <1>5 DEF ExhaustInvariant, OwnRequests
    <3>3. \A i \in DOMAIN stream' :
            /\ stream'[i].age # "before" => stream'[i].kind = call'.kind
            /\ stream'[i].kind \notin BmsWrites
      BY <1>1, <1>6, <2>2, <3>2 DEF ExhaustInvariant, OwnRequests
    <3> QED
      BY <3>1, <3>3 DEF OwnRequests
  <2>4. StrayCount(stream)' = StrayCount(stream) + StrayCount(<<f>>)
    BY <1>1, <1>2, <1>5, <2>1, StraysOfAppend DEF StrayCount
  <2>5. InFlight => InFlight'
    <3>1. CASE f.age = "attempt"
      BY <2>2, <3>1 DEF InFlight
    <3>2. CASE f.age # "attempt"
      <4>1. ASSUME NEW i \in DOMAIN pending, pending[i].age = "attempt"
            PROVE  i - 1 \in DOMAIN pending' /\ pending'[i - 1] = pending[i]
        <5>1. i - 1 \in DOMAIN Tail(pending) /\ i \in Int
          BY <1>2, <1>5, <3>2, <4>1
        <5>2. Tail(pending)[i - 1] = pending[i - 1 + 1] /\ i - 1 + 1 = i
          BY <1>2, <5>1
        <5> QED
          BY <1>1, <5>1, <5>2
      <4>2. ASSUME NEW i \in DOMAIN stream, stream[i].age = "attempt"
            PROVE  i \in DOMAIN stream' /\ stream'[i] = stream[i]
        BY <2>2
      <4> QED
        BY <4>1, <4>2 DEF InFlight
    <3> QED
      BY <3>1, <3>2
  <2>6. StrayCount(pending)' + StrayCount(stream)'
          = StrayCount(pending) + StrayCount(stream)
    BY <1>2, <1>3, <2>4, PaidTypes
  <2>7. round - 1 + StrayCount(pending)' + StrayCount(stream)'
          = round - 1 + StrayCount(pending) + StrayCount(stream)
    BY <1>2, <1>3, <2>4, PaidTypes
  <2>8. Paid'
    <3> HIDE DEF f
    <3> DEFINE old == Retries * (round - 1 + StrayCount(pending) + StrayCount(stream))
    <3>1. old \in Nat
      BY PaidTypes
    <3>2. faults + Retries * StrayCount(kept) >=
            old + (attempt - 1) + (IF pc = "read" /\ ~InFlight THEN 1 ELSE 0)
      BY <1>6 DEF ExhaustInvariant, Paid
    <3>3. Retries * (round - 1 + StrayCount(pending)' + StrayCount(stream)') = old
      BY <2>7
    <3> HIDE DEF old
    <3>4. faults + Retries * StrayCount(kept) >=
            old + (attempt - 1) + (IF pc = "read" /\ ~InFlight' THEN 1 ELSE 0)
      BY <2>5, <3>1, <3>2, PaidTypes
    <3> QED
      BY <1>1, <1>3, <3>3, <3>4 DEF Paid
  <2> QED
    BY <1>4, <2>3, <2>8 DEF ExhaustInvariant
<1>7. CASE ~(pc = "read" /\ f.kind \notin BmsWrites)
  <2>1. UNCHANGED stream
    BY <1>7 DEF Serve
  <2>2. OwnRequests'
    BY <1>1, <1>2, <2>1 DEF ExhaustInvariant, OwnRequests
  <2>3. StrayCount(stream)' = StrayCount(stream)
    BY <1>1, <2>1 DEF StrayCount
  <2>4. pc = "read" => (InFlight => InFlight')
    <3>1. ASSUME pc = "read", NEW i \in DOMAIN pending, pending[i].age = "attempt"
          PROVE  i - 1 \in DOMAIN pending' /\ pending'[i - 1] = pending[i]
      <4>1. call.kind \notin BmsWrites /\ f.kind \in BmsWrites
        BY <1>7, <3>1 DEF Counted
      <4>2. i # 1
        BY <1>2, <3>1, <4>1 DEF ExhaustInvariant, OwnRequests
      <4>3. i - 1 \in DOMAIN Tail(pending) /\ i \in Int
        BY <1>2, <1>5, <3>1, <4>2
      <4>4. Tail(pending)[i - 1] = pending[i - 1 + 1] /\ i - 1 + 1 = i
        BY <1>2, <4>3
      <4> QED
        BY <1>1, <4>3, <4>4
    <3> QED
      BY <2>1, <3>1 DEF InFlight
  <2>5. Paid'
    <3> HIDE DEF f
    <3> DEFINE old == Retries * (round - 1 + StrayCount(pending) + StrayCount(stream))
               new == Retries * (round - 1 + StrayCount(pending)' + StrayCount(stream)')
    <3>1. old \in Nat /\ new \in Nat /\ new <= old
      <4>1. /\ StrayCount(pending)' \in Nat
            /\ StrayCount(pending)' <= StrayCount(pending)
        BY <1>2, <1>3, PaidTypes
      <4> QED
        BY <2>3, <4>1, PaidTypes, LessToPay
    <3>2. pc # "idle" => faults + Retries * StrayCount(kept) >=
            old + (attempt - 1) + (IF pc = "read" /\ ~InFlight THEN 1 ELSE 0)
      BY DEF ExhaustInvariant, Paid
    <3> HIDE DEF old, new
    <3>3. pc # "idle" => faults + Retries * StrayCount(kept) >=
            new + (attempt - 1) + (IF pc = "read" /\ ~InFlight' THEN 1 ELSE 0)
      BY <2>4, <3>1, <3>2, PaidTypes
    <3> QED
      BY <1>1, <1>3, <3>3 DEF Paid, new
  <2> QED
    BY <1>4, <2>2, <2>5 DEF ExhaustInvariant
<1> QED
  BY <1>6, <1>7

(* A request that gets lost is a fault if it was the running attempt's.    *)
LEMMA LosePaid ==
  ASSUME TypeOK, TypeOK', ExhaustInvariant, Lose
  PROVE  ExhaustInvariant'
<1>1. /\ pending # <<>> /\ pending' = Tail(pending)
      /\ faults' = IF Head(pending).age = "attempt" THEN faults + 1 ELSE faults
      /\ UNCHANGED <<pc, call, attempt, round, status, reply, kept, stream>>
  BY DEF Lose, client
<1>2. /\ StrayCount(<<Head(pending)>>) \in Nat
      /\ StrayCount(Tail(pending)) \in Nat
      /\ StrayCount(pending)
           = StrayCount(<<Head(pending)>>) + StrayCount(Tail(pending))
      /\ Head(pending) = pending[1]
      /\ \A i \in DOMAIN pending : i = 1 \/ i - 1 \in DOMAIN Tail(pending)
      /\ \A i \in DOMAIN Tail(pending) :
           i + 1 \in DOMAIN pending /\ Tail(pending)[i] = pending[i + 1]
  BY <1>1, TailPaid
<1>3. /\ StrayCount(kept)' = StrayCount(kept)
      /\ StrayCount(stream)' = StrayCount(stream)
      /\ StrayCount(pending)' = StrayCount(Tail(pending))
  BY <1>1 DEF StrayCount
<1>4. FailsOnlyWhenExhausted'
  <2>1. /\ Retries * StrayCount(kept) \in Nat /\ faults \in Nat
        /\ Retries * DecodeAttempts(call.kind) \in Nat
    BY PaidTypes, DecodeAttemptsBound
  <2>2. Strays = StrayCount(kept) /\ Strays' = StrayCount(kept)
    BY <1>3 DEF Strays, StrayCount
  <2> QED
    BY <1>1, <2>1, <2>2 DEF ExhaustInvariant, FailsOnlyWhenExhausted
<1>5. OwnRequests'
  BY <1>1, <1>2 DEF ExhaustInvariant, OwnRequests
<1>6. Head(pending).age # "attempt" => (InFlight => InFlight')
  <2>1. ASSUME Head(pending).age # "attempt",
               NEW i \in DOMAIN pending, pending[i].age = "attempt"
        PROVE  i - 1 \in DOMAIN pending' /\ pending'[i - 1] = pending[i]
    <3>1. i - 1 \in DOMAIN Tail(pending) /\ i \in Int
      <4>1. DOMAIN pending = 1 .. Len(pending)
        BY DEF TypeOK
      <4> QED
        BY <1>2, <2>1, <4>1
    <3>2. Tail(pending)[i - 1] = pending[i - 1 + 1] /\ i - 1 + 1 = i
      BY <1>2, <3>1
    <3> QED
      BY <1>1, <3>1, <3>2
  <2> QED
    BY <1>1, <2>1 DEF InFlight
<1>7. Paid'
  <2> DEFINE old == Retries * (round - 1 + StrayCount(pending) + StrayCount(stream))
             new == Retries * (round - 1 + StrayCount(pending)' + StrayCount(stream)')
  <2>1. old \in Nat /\ new \in Nat /\ new <= old
    <3>1. /\ StrayCount(pending)' \in Nat
          /\ StrayCount(pending)' <= StrayCount(pending)
      BY <1>2, <1>3, PaidTypes
    <3> QED
      BY <1>3, <3>1, PaidTypes, LessToPay
  <2>2. pc # "idle" => faults + Retries * StrayCount(kept) >=
          old + (attempt - 1) + (IF pc = "read" /\ ~InFlight THEN 1 ELSE 0)
    BY DEF ExhaustInvariant, Paid
  <2> HIDE DEF old, new
  <2>3. pc # "idle" => faults' + Retries * StrayCount(kept) >=
          new + (attempt - 1) + (IF pc = "read" /\ ~InFlight' THEN 1 ELSE 0)
    <3>1. /\ faults \in Nat /\ Retries * StrayCount(kept) \in Nat
          /\ attempt \in Nat
      BY PaidTypes
    <3>2. CASE Head(pending).age = "attempt"
      BY <1>1, <2>1, <2>2, <3>1, <3>2
    <3>3. CASE Head(pending).age # "attempt"
      BY <1>1, <1>6, <2>1, <2>2, <3>1, <3>3
    <3> QED
      BY <3>2, <3>3
  <2> QED
    BY <1>1, <1>3, <2>3 DEF Paid, new
<1> QED
  BY <1>4, <1>5, <1>7 DEF ExhaustInvariant

(* Putting the request of an attempt on the wire.                          *)
LEMMA SendPaid ==
  ASSUME TypeOK, TypeOK', ExhaustInvariant, SendFrame, status = "none"
  PROVE  ExhaustInvariant'
<1> DEFINE taken == IF Len(pending) < MaxPending THEN Append(pending, Request)
                    ELSE pending
<1>1. pc = "send" /\ pc # "idle" /\ UNCHANGED <<call, kept>>
  BY DEF SendFrame, Return
<1>2. /\ taken \in Seq(Frame)
      /\ \A i \in DOMAIN taken :
           \/ i \in DOMAIN pending /\ taken[i] = pending[i]
           \/ taken[i] = Request
  BY <1>1, TakenType
<1>3. Request \in Frame /\ Request.kind = call.kind /\ Request.age = "attempt"
  BY <1>1, RequestType DEF Request
<1>4. \A i \in DOMAIN taken :
        taken[i].age # "before" => taken[i].kind = call.kind
  BY <1>2, <1>3 DEF ExhaustInvariant, OwnRequests
<1>5. CASE call.kind \in BmsWrites
  <2>1. CloseSocket(taken) /\ Return("sent", None)
    BY <1>5 DEF SendFrame
  <2>2. OwnRequests'
    BY <1>1, <1>2, <1>4, <2>1, ClosePaid
  <2> QED
    BY <2>1, <2>2
    DEF Return, ExhaustInvariant, Paid, FailsOnlyWhenExhausted
<1>6. CASE call.kind \notin BmsWrites
  <2>1. /\ pc' = "read" /\ pending' = taken
        /\ faults' = IF taken = pending THEN faults + 1 ELSE faults
        /\ UNCHANGED <<call, attempt, round, status, reply, stream, kept>>
    BY <1>6 DEF SendFrame
  <2>2. stream = <<>>
    BY <1>1 DEF TypeOK
  <2>3. OwnRequests'
    BY <1>4, <2>1, <2>2 DEF OwnRequests
  <2>4. FailsOnlyWhenExhausted'
    BY <2>1 DEF FailsOnlyWhenExhausted
  <2>5. /\ StrayCount(kept)' = StrayCount(kept)
        /\ StrayCount(stream)' = StrayCount(stream)
        /\ StrayCount(pending)' = StrayCount(pending)
    <3>1. StrayCount(taken) = StrayCount(pending)
      <4>1. CASE Len(pending) < MaxPending
        <5>1. pending \in Seq(Frame)
          BY DEF TypeOK
        <5>2. Cardinality(StraysAmong(call.kind, Append(pending, Request)))
                = Cardinality(StraysAmong(call.kind, pending))
                    + Cardinality(StraysAmong(call.kind, <<Request>>))
          BY <1>3, <5>1, StraysOfAppend
        <5>3. Cardinality(StraysAmong(call.kind, <<Request>>)) = 0
          BY <1>3, NoStrays
        <5>4. taken = Append(pending, Request)
          BY <4>1
        <5> QED
          BY <5>2, <5>3, <5>4, PaidTypes DEF StrayCount
      <4>2. CASE ~(Len(pending) < MaxPending)
        BY <4>2
      <4> QED
        BY <4>1, <4>2
    <3> HIDE DEF taken
    <3> QED
      BY <2>1, <3>1 DEF StrayCount
  <2>6. taken # pending => InFlight'
    <3>1. pending \in Seq(Frame)
      BY DEF TypeOK
    <3>2. taken # pending => taken = Append(pending, Request)
      OBVIOUS
    <3>3. taken # pending =>
            /\ Len(pending) + 1 \in DOMAIN taken
            /\ taken[Len(pending) + 1].age = "attempt"
      BY <1>3, <3>1, <3>2, AppendProperties
    <3> HIDE DEF taken
    <3> QED
      BY <2>1, <3>3 DEF InFlight
  <2>7. Paid'
    <3> DEFINE old == Retries * (round - 1 + StrayCount(pending) + StrayCount(stream))
    <3>1. old \in Nat /\ Retries * StrayCount(kept) \in Nat /\ faults \in Nat
          /\ attempt \in Nat
      BY PaidTypes
    <3>2. faults + Retries * StrayCount(kept) >= old + (attempt - 1)
      <4>1. faults + Retries * StrayCount(kept) >= old + (attempt - 1)
              + (IF pc = "read" /\ ~InFlight THEN 1 ELSE 0)
        BY <1>1 DEF ExhaustInvariant, Paid
      <4> HIDE DEF old
      <4> QED
        BY <1>1, <3>1, <4>1
    <3>3. faults' + Retries * StrayCount(kept) >=
            old + (attempt - 1) + (IF ~InFlight' THEN 1 ELSE 0)
      <4> HIDE DEF old, taken
      <4>1. CASE taken = pending
        BY <2>1, <3>1, <3>2, <4>1
      <4>2. CASE taken # pending
        BY <2>1, <2>6, <3>1, <3>2, <4>2
      <4> QED
        BY <4>1, <4>2
    <3> QED
      BY <2>1, <2>5, <3>3 DEF Paid
  <2> QED
    BY <2>3, <2>4, <2>7 DEF ExhaustInvariant
<1> QED
  BY <1>5, <1>6

(* An answer that is refused was a stray, and pays for its round.          *)
LEMMA ReadPaid ==
  ASSUME TypeOK, TypeOK', Counted, ExhaustInvariant, status = "none",
         ReadFrame \/ ReadUnreadable
  PROVE  ExhaustInvariant'
<1>1. /\ pc = "read" /\ stream # <<>> /\ CloseSocket(pending)
      /\ UNCHANGED <<call, kept>>
  BY RoundFailedFacts DEF ReadFrame, ReadUnreadable, Return
<1>2. pending \in Seq(Frame) /\ stream \in Seq(Frame)
  BY DEF TypeOK
<1>3. OwnRequests' /\ StrayCount(pending)' <= StrayCount(pending)
  BY <1>1, <1>2, ClosePaid DEF ExhaustInvariant, OwnRequests
<1>4. /\ stream' = <<>> /\ round <= DecodeAttempts(call.kind)
      /\ call.kind \notin BmsWrites
  BY <1>1 DEF CloseSocket, Counted
<1>5. /\ Retries * StrayCount(kept) \in Nat /\ faults \in Nat
      /\ StrayCount(pending) \in Nat /\ StrayCount(stream) \in Nat
      /\ round \in Nat \ {0} /\ Retries \in Nat \ {0} /\ attempt \in 1 .. Retries
  BY PaidTypes
<1>6. faults + Retries * StrayCount(kept) >=
        Retries * (round - 1 + StrayCount(pending) + StrayCount(stream))
  <2> DEFINE old == Retries * (round - 1 + StrayCount(pending) + StrayCount(stream))
  <2>1. old \in Nat
    BY <1>5
  <2>2. faults + Retries * StrayCount(kept) >=
          old + (attempt - 1) + (IF pc = "read" /\ ~InFlight THEN 1 ELSE 0)
    BY <1>1 DEF ExhaustInvariant, Paid
  <2> HIDE DEF old
  <2>3. faults + Retries * StrayCount(kept) >= old
    BY <1>5, <2>1, <2>2
  <2> QED
    BY <2>3 DEF old
<1>7. CASE Return("ok", Head(stream))
  BY <1>3, <1>7 DEF Return, ExhaustInvariant, Paid, FailsOnlyWhenExhausted
<1>8. CASE ReadFrame /\ RoundFailed /\ ~Accepts(call.kind, Head(stream))
  <2>1. Head(stream) = stream[1] /\ 1 \in DOMAIN stream
    BY <1>1, <1>2
  <2>2. Head(stream).kind \notin BmsWrites
    BY <2>1 DEF ExhaustInvariant, OwnRequests
  <2>3. 1 \in StraysAmong(call.kind, stream)
    BY <1>4, <1>8, <2>1, <2>2 DEF StraysAmong
  <2>4. StrayCount(stream) # 0
    BY <1>2, <2>3, StraysFinite, FS_EmptySet DEF StrayCount
  <2>5. /\ Retries * (round + StrayCount(pending)) <=
             Retries * (round - 1 + StrayCount(pending) + StrayCount(stream))
        /\ Retries * (round + StrayCount(pending)) \in Nat
        /\ Retries * (round - 1 + StrayCount(pending) + StrayCount(stream)) \in Nat
    <3>1. /\ round + StrayCount(pending) \in Nat
          /\ round - 1 + StrayCount(pending) + StrayCount(stream) \in Nat
          /\ round + StrayCount(pending)
               <= round - 1 + StrayCount(pending) + StrayCount(stream)
      BY <1>5, <2>4
    <3> QED
      BY <1>5, <3>1, RoundsMonotonic
  <2>6. faults' + Retries * StrayCount(kept) >=
          Retries * (round + StrayCount(pending))
    <3>1. faults' = faults
      BY <1>8 DEF ReadFrame
    <3> QED
      BY <1>5, <1>6, <2>5, <3>1
  <2>7. Paid' /\ FailsOnlyWhenExhausted'
    BY <1>3, <1>4, <1>5, <1>8, <2>6, RoundFailedPaid
  <2> QED
    BY <1>3, <2>7 DEF ExhaustInvariant
<1>9. CASE ReadUnreadable
  <2>1. RoundFailed /\ faults' = faults + Retries
    BY <1>9 DEF ReadUnreadable
  <2>2. faults' + Retries * StrayCount(kept) >=
          Retries * (round + StrayCount(pending))
    <3> DEFINE mine == round - 1 + StrayCount(pending)
               all == round - 1 + StrayCount(pending) + StrayCount(stream)
    <3>0. mine \in Nat /\ all \in Nat /\ mine <= all
      BY <1>5
    <3>1. Retries * mine \in Nat
          /\ Retries * mine + Retries = Retries * (round + StrayCount(pending))
      BY <1>5
    <3>2. Retries * mine <= Retries * all /\ Retries * all \in Nat
      <4> HIDE DEF mine, all
      <4> QED
        BY <1>5, <3>0, RoundsMonotonic
    <3> QED
      BY <1>5, <1>6, <2>1, <3>1, <3>2
  <2>3. Paid' /\ FailsOnlyWhenExhausted'
    BY <1>3, <1>4, <1>5, <2>1, <2>2, RoundFailedPaid
  <2> QED
    BY <1>3, <2>3 DEF ExhaustInvariant
<1> QED
  BY <1>7, <1>8, <1>9 DEF ReadFrame

(* Every step keeps the account.                                           *)
LEMMA ExhaustStep ==
  ASSUME TypeOK, TypeOK', Counted, StaleInvariant, ExhaustInvariant, [Next]_vars
  PROVE  ExhaustInvariant'
<1>0. /\ pending \in Seq(Frame) /\ stream \in Seq(Frame) /\ kept \in Seq(Frame)
      /\ pc # "idle" => status = "none"
  BY DEF TypeOK, StaleInvariant
<1>1. ASSUME NEW c \in Calls, Begin(c) PROVE ExhaustInvariant'
  <2>1. /\ pc = "idle" /\ pc' = "send" /\ call' = c
        /\ attempt' = 1 /\ round' = 1 /\ status' = "none" /\ faults' = 0
        /\ pending' = Aged(pending, "before") /\ kept' = pending'
        /\ UNCHANGED stream
    BY <1>1 DEF Begin
  <2>2. stream = <<>>
    BY <2>1 DEF TypeOK
  <2>3. \A i \in DOMAIN pending' : pending'[i].age = "before"
    <3>1. \A i \in DOMAIN pending : pending[i] \in Frame
      BY <1>0
    <3> QED
      BY <2>1, <3>1 DEF Aged, Frame
  <2>4. OwnRequests'
    BY <2>1, <2>2, <2>3 DEF OwnRequests
  <2>5. StrayCount(kept)' = StrayCount(pending)' /\ StrayCount(stream)' = 0
    BY <2>1, <2>2, NoStrays DEF StrayCount
  <2>6. StrayCount(pending)' \in Nat
    BY StraysFinite DEF TypeOK, StrayCount
  <2>7. Paid'
    BY <2>1, <2>5, <2>6, BoundAssumption DEF Paid
  <2>8. FailsOnlyWhenExhausted'
    BY <2>1 DEF FailsOnlyWhenExhausted
  <2> QED
    BY <2>4, <2>7, <2>8 DEF ExhaustInvariant
<1>2. CASE SendFrame
  BY <1>0, <1>2, SendPaid DEF SendFrame
<1>3. CASE SendFails
  <2>1. /\ pc = "send" /\ pc # "idle" /\ AttemptFailed /\ faults' = faults + 1
        /\ UNCHANGED <<call, kept, pending, stream>>
    BY <1>3, AttemptFailedFacts DEF SendFails, bridge
  <2>2. stream = <<>> /\ StrayCount(stream) = 0
    BY <2>1, NoStrays DEF TypeOK, StrayCount
  <2>3. StrayCount(pending)' = StrayCount(pending) /\ OwnRequests'
    BY <2>1 DEF StrayCount, ExhaustInvariant, OwnRequests
  <2>4. faults' + Retries * StrayCount(kept)
          >= Retries * (round - 1 + StrayCount(pending)) + attempt
    <3>1. /\ round - 1 + StrayCount(pending) + StrayCount(stream)
               = round - 1 + StrayCount(pending)
          /\ Retries * (round - 1 + StrayCount(pending)) \in Nat
          /\ Retries * StrayCount(kept) \in Nat /\ faults \in Nat
          /\ attempt \in Nat
      BY <2>2, PaidTypes
    <3> QED
      BY <2>1, <3>1 DEF ExhaustInvariant, Paid
  <2>5. round <= DecodeAttempts(call.kind) /\ StrayCount(pending) \in Nat
    BY <2>1, PaidTypes DEF Counted
  <2>6. Paid' /\ FailsOnlyWhenExhausted'
    BY <1>0, <2>1, <2>2, <2>3, <2>4, <2>5, AttemptFailedPaid
  <2> QED
    BY <2>3, <2>6 DEF ExhaustInvariant
<1>4. CASE ReadFails
  <2>1. /\ pc = "read" /\ pc # "idle" /\ AttemptFailed /\ CloseSocket(pending)
        /\ faults' = IF InFlight THEN faults + 1 ELSE faults
        /\ stream' = <<>> /\ UNCHANGED <<call, kept>>
    BY <1>4, AttemptFailedFacts DEF ReadFails, CloseSocket
  <2>2. StrayCount(pending)' <= StrayCount(pending) /\ OwnRequests'
    BY <1>0, <2>1, ClosePaid DEF ExhaustInvariant, OwnRequests
  <2>3. faults' + Retries * StrayCount(kept)
          >= Retries * (round - 1 + StrayCount(pending)) + attempt
    <3> DEFINE old == Retries * (round - 1 + StrayCount(pending) + StrayCount(stream))
               new == Retries * (round - 1 + StrayCount(pending))
    <3>1. /\ Retries * StrayCount(kept) \in Nat /\ faults \in Nat
          /\ attempt \in Nat
      BY PaidTypes
    <3>2. old \in Nat /\ new \in Nat /\ new <= old
      <4>1. /\ round - 1 + StrayCount(pending) \in Nat
            /\ round - 1 + StrayCount(pending) + StrayCount(stream) \in Nat
            /\ round - 1 + StrayCount(pending)
                 <= round - 1 + StrayCount(pending) + StrayCount(stream)
        BY PaidTypes
      <4> QED
        BY <4>1, PaidTypes, RoundsMonotonic
    <3>3. faults + Retries * StrayCount(kept) >=
            old + (attempt - 1) + (IF ~InFlight THEN 1 ELSE 0)
      BY <2>1 DEF ExhaustInvariant, Paid
    <3> HIDE DEF old, new
    <3>4. faults' + Retries * StrayCount(kept) >= new + attempt
      <4>1. CASE InFlight
        BY <2>1, <3>1, <3>2, <3>3, <4>1
      <4>2. CASE ~InFlight
        BY <2>1, <3>1, <3>2, <3>3, <4>2
      <4> QED
        BY <4>1, <4>2
    <3> QED
      BY <3>4 DEF new
  <2>4. round <= DecodeAttempts(call.kind) /\ StrayCount(pending) \in Nat
    BY <2>1, PaidTypes DEF Counted
  <2>5. Paid' /\ FailsOnlyWhenExhausted'
    BY <1>0, <2>1, <2>2, <2>3, <2>4, AttemptFailedPaid
  <2> QED
    BY <2>2, <2>5 DEF ExhaustInvariant
<1>5. CASE ReadFrame \/ ReadUnreadable
  <2>1. status = "none"
    BY <1>0, <1>5 DEF ReadFrame, ReadUnreadable
  <2> QED
    BY <1>5, <2>1, ReadPaid
<1>6. CASE Serve
  BY <1>6, ServePaid
<1>7. CASE Lose
  BY <1>7, LosePaid
<1>8. CASE UNCHANGED vars
  BY <1>8 DEF vars, client, bridge, history, ExhaustInvariant, OwnRequests, Paid,
     InFlight, StrayCount, FailsOnlyWhenExhausted, Strays
<1> QED
  BY <1>1, <1>2, <1>3, <1>4, <1>5, <1>6, <1>7, <1>8 DEF Next, Client

(* A call is reported failed only when it has used up every attempt it has,*)
(* each on a stray answer or on disturbances of the link: no attempt of    *)
(* query or _retry_decode is given away, for any number of them.           *)
THEOREM FailuresAreExhaustive == Spec => []FailsOnlyWhenExhausted
<1>1. Init => Counted /\ FramesBounded
  BY DEF Init, Counted, FramesBounded
<1>2. TypeOK /\ Counted /\ FramesBounded /\ [Next]_vars
        => (Counted /\ FramesBounded)'
  BY CountStep
<1>3. Init => StaleInvariant
  BY DEF Init, StaleInvariant, WasKept, StaleOnlyIfKept
<1>4. TypeOK /\ StaleInvariant /\ [Next]_vars => StaleInvariant'
  BY StaleStep
<1>5. Init => ExhaustInvariant
  BY DEF Init, ExhaustInvariant, OwnRequests, Paid, FailsOnlyWhenExhausted
<1>6. /\ TypeOK /\ TypeOK' /\ Counted /\ StaleInvariant /\ ExhaustInvariant
      /\ [Next]_vars
      => ExhaustInvariant'
  BY ExhaustStep
<1>7. ExhaustInvariant => FailsOnlyWhenExhausted
  BY DEF ExhaustInvariant
<1> QED
  BY <1>1, <1>2, <1>3, <1>4, <1>5, <1>6, <1>7, TypesHold, PTL DEF Spec

-----------------------------------------------------------------------------
(* The promise of a call.                                                  *)

(* The end of a round or an attempt is a failed call, or invisible.        *)
LEMMA LossRefines ==
  ASSUME pc # "idle", frames' = frames, RoundFailed \/ AttemptFailed
  PROVE  Promise!Fail \/ UNCHANGED Promise!callVars
<1>1. \/ pc' = "send" /\ UNCHANGED <<call, status, reply>>
      \/ Return("failed", None)
  BY DEF RoundFailed, AttemptFailed
<1> QED
  BY <1>1 DEF Return, Promise!Fail, Promise!End, Promise!callVars

(* Every step of a call is one of the promise, or invisible.               *)
LEMMA StepRefines ==
  ASSUME TypeOK, Counted, FramesBounded', [Next]_vars
  PROVE  [Promise!CallNext]_(Promise!callVars)
<1>0. frames \in Nat /\ (pc # "idle" => call \in Calls)
  BY RequestType DEF TypeOK
<1>1. ASSUME NEW c \in Calls, Begin(c)
      PROVE  Promise!CallNext
  <2>1. Promise!Start(c)
    BY <1>1 DEF Begin, Promise!Start
  <2> QED
    BY <2>1 DEF Promise!CallNext
<1>2. CASE SendFrame
  <2>1. /\ pc = "send" /\ call \in Calls /\ frames' = frames + 1
        /\ pc # "idle"
    BY <1>0, <1>2 DEF SendFrame
  <2>2. CASE call.kind \in BmsWrites
    <3>1. Return("sent", None) /\ frames = 0
      BY <1>2, <2>1, <2>2 DEF SendFrame, Counted
    <3>2. call \in {c \in Calls : c.kind \in BmsWrites}
      BY <2>1, <2>2
    <3>3. Promise!Send
      BY <2>1, <3>1, <3>2 DEF Return, Promise!Send, Promise!End
    <3> QED
      BY <3>3 DEF Promise!CallNext
  <2>3. CASE call.kind \notin BmsWrites
    <3>1. pc' = "read" /\ UNCHANGED <<call, status, reply>>
      BY <1>2, <2>3 DEF SendFrame
    <3>2. call # None
      BY <2>1, CallAssumption, NoneAssumption
    <3>3. frames + 1 <= Retries * DecodeAttempts(call.kind)
      BY <2>1, <2>3, <3>1, <3>2 DEF FramesBounded
    <3>4. Retries * DecodeAttempts(call.kind) \in Nat
      BY BoundAssumption, DecodeAttemptsBound
    <3>5. frames < [c \in Calls |-> Retries * DecodeAttempts(c.kind)][call]
      BY <1>0, <2>1, <3>3, <3>4
    <3>6. Promise!Transmit
      BY <2>1, <2>3, <3>1, <3>5 DEF Promise!Transmit
    <3> QED
      BY <3>6 DEF Promise!CallNext
  <2> QED
    BY <2>2, <2>3
<1>3. CASE SendFails \/ ReadFails
  <2>1. pc # "idle" /\ frames' = frames /\ AttemptFailed
    BY <1>3 DEF SendFails, ReadFails
  <2> QED
    BY <2>1, LossRefines DEF Promise!CallNext
<1>4. CASE ReadFrame
  <2>1. /\ pc = "read" /\ pc # "idle" /\ frames' = frames /\ stream # <<>>
        /\ frames > 0 /\ call.kind \notin BmsWrites /\ call \in Calls
    BY <1>0, <1>4 DEF ReadFrame, Counted
  <2>2. CASE Accepts(call.kind, Head(stream)) /\ Return("ok", Head(stream))
    <3> DEFINE f == Head(stream)
    <3>1. f \in Frame
      BY <2>1 DEF TypeOK
    <3>2. <<call, f>> \in {m \in Calls \X Frame :
                             Answers(m[1].kind) = Answers(m[2].kind)}
      BY <2>1, <2>2, <3>1 DEF Accepts
    <3>3. call \notin {c \in Calls : c.kind \in BmsWrites}
      BY <2>1
    <3> HIDE DEF f
    <3>4. Promise!Succeed
      BY <2>1, <3>1, <2>2, <3>2, <3>3 DEF Return, Promise!Succeed, Promise!End, f
    <3> QED
      BY <3>4 DEF Promise!CallNext
  <2>3. CASE RoundFailed
    BY <2>1, <2>3, LossRefines DEF Promise!CallNext
  <2> QED
    BY <1>4, <2>2, <2>3 DEF ReadFrame
<1>5. CASE ReadUnreadable
  <2>1. pc # "idle" /\ frames' = frames /\ RoundFailed
    BY <1>5 DEF ReadUnreadable
  <2> QED
    BY <2>1, LossRefines DEF Promise!CallNext
<1>6. CASE Serve \/ Lose \/ UNCHANGED vars
  BY <1>6 DEF Serve, Lose, vars, client, history, Promise!callVars
<1> QED
  BY <1>1, <1>2, <1>3, <1>4, <1>5, <1>6 DEF Next, Client

(* The client implements the promise of VescCall: a BMS write that is      *)
(* reported failed was never on the wire and one reported sent was there   *)
(* once; no other call sends more than Retries frames for each decode      *)
(* attempt; "ok" comes with a frame of the right command, after a frame of *)
(* the call's own.                                                         *)
THEOREM CallsKeepTheirPromise == Spec => CallSpec
<1>1. Init => Promise!CallInit
  BY DEF Init, Promise!CallInit
<1>2. Init => Counted /\ FramesBounded
  BY DEF Init, Counted, FramesBounded
<1>3. TypeOK /\ Counted /\ FramesBounded /\ [Next]_vars
        => (Counted /\ FramesBounded)'
  BY CountStep
<1>4. TypeOK /\ Counted /\ FramesBounded' /\ [Next]_vars
        => [Promise!CallNext]_(Promise!callVars)
  BY StepRefines
<1> QED
  BY <1>1, <1>2, <1>3, <1>4, TypesHold, PTL DEF Spec, CallSpec, Promise!CallSpec
=============================================================================
