------------------------- MODULE MqttSession_proofs -------------------------
(***************************************************************************)
(* Proofs about MqttSession for every window and number of restarts.       *)
(***************************************************************************)
EXTENDS MqttSessionProperties, SequenceTheorems, TLAPS

(* After disconnect() has begun nothing is published behind its "offline", *)
(* and once the broker has all of it, that is what it retains.             *)
Closing ==
  pc \in {"closing", "stopping"} =>
    /\ out # <<>> => out[Len(out)] = "offline"
    /\ done = Len(out) => retained = "offline"

(* A board that is shown online without a live session owes it to a        *)
(* goodbye that was cut short; a new connection starts from there.         *)
SessionInvariant ==
  /\ link # "down" => watch = "live"
  /\ watch = "none" \/ link = "handshake" => retained # "online" \/ cut
  /\ Closing

(* The last availability on its way is the last one published, and when    *)
(* none is on its way, the broker has it.                                  *)
OrderInvariant ==
  /\ \A i \in DOMAIN out :
       out[i] # "data" /\ (\A j \in DOMAIN out : j > i => out[j] = "data")
         => out[i] = last
  /\ last # "none" /\ ~willed /\ (\A j \in DOMAIN out : j > done => out[j] = "data")
       => retained = last

-----------------------------------------------------------------------------
(* The queue.                                                              *)

(* paho's queue and its window in numbers.                                 *)
LEMMA QueueFacts ==
  ASSUME TypeOK
  PROVE  /\ out \in Seq(Messages) /\ Len(out) \in Nat
         /\ DOMAIN out = 1 .. Len(out)
         /\ Window \in Nat \ {0}
         /\ InFlight \in Nat /\ InFlight <= Len(out) /\ InFlight <= Window
         /\ done \in Nat /\ done <= InFlight
<1>1. /\ out \in Seq(Messages) /\ Len(out) \in Nat /\ DOMAIN out = 1 .. Len(out)
      /\ Window \in Nat \ {0}
  BY WindowAssumption, LenProperties DEF TypeOK
<1>2. InFlight \in Nat /\ InFlight <= Len(out) /\ InFlight <= Window
  BY <1>1 DEF InFlight
<1>3. done \in 0 .. InFlight
  BY DEF TypeOK
<1> QED
  BY <1>1, <1>2, <1>3

(* Publishing puts the availability at the end of the queue.               *)
LEMMA PublishFacts ==
  ASSUME TypeOK, NEW data \in {<<>>, <<"data">>}, NEW a \in {"online", "offline"},
         Publish(data, a)
  PROVE  /\ out' \in Seq(Messages)
         /\ Len(out') > Len(out)
         /\ out' # <<>>
         /\ out'[Len(out')] = a
         /\ last' = a
<1>1. out \in Seq(Messages) /\ data \in Seq(Messages) /\ <<a>> \in Seq(Messages)
      /\ Len(<<a>>) = 1 /\ Len(data) \in Nat /\ Len(out) \in Nat
  <2>1. data \in Seq(Messages) /\ Len(data) \in Nat
    <3>1. CASE data = <<>>
      BY <3>1
    <3>2. CASE data = <<"data">>
      BY <3>2 DEF Messages
    <3> QED
      BY <3>1, <3>2
  <2>2. <<a>> \in Seq(Messages) /\ Len(<<a>>) = 1
    BY DEF Messages
  <2> QED
    BY <2>1, <2>2, QueueFacts
<1>2. out \o data \in Seq(Messages) /\ Len(out \o data) = Len(out) + Len(data)
  BY <1>1, ConcatProperties
<1>3. /\ out' \in Seq(Messages)
      /\ Len(out') = Len(out) + Len(data) + 1
      /\ out'[Len(out) + Len(data) + 1] = a
  <2>1. out' = (out \o data) \o <<a>>
    BY DEF Publish
  <2> QED
    BY <1>1, <1>2, <2>1, ConcatProperties
<1> QED
  BY <1>1, <1>3 DEF Publish

(* A publication at the end keeps what the broker has in the window.       *)
LEMMA LongerQueue ==
  ASSUME TypeOK, out' \in Seq(Messages), Len(out') >= Len(out), UNCHANGED done
  PROVE  done' \in 0 .. InFlight'
BY QueueFacts DEF InFlight

(* An acknowledged publication leaves the queue and the window together.   *)
LEMMA AcknowledgeFacts ==
  ASSUME TypeOK, Acknowledge
  PROVE  /\ out' \in Seq(Messages)
         /\ Len(out') = Len(out) - 1
         /\ \A i \in 1 .. Len(out') : out'[i] = out[i + 1]
         /\ done' = done - 1 /\ done' \in 0 .. InFlight'
         /\ UNCHANGED <<pc, last, watch, retained, willed, cut, link>>
<1>1. out # <<>> /\ out' = Tail(out) /\ done > 0 /\ done' = done - 1
  BY QueueFacts DEF Acknowledge
<1>2. /\ out' \in Seq(Messages) /\ Len(out') = Len(out) - 1
      /\ \A i \in 1 .. Len(out') : out'[i] = out[i + 1]
  BY <1>1, QueueFacts, HeadTailProperties
<1> QED
  BY <1>1, <1>2, QueueFacts DEF Acknowledge, InFlight, broker, history

-----------------------------------------------------------------------------
(* Types.                                                                  *)

(* TypeOK in the parts the steps are shown to keep.                        *)
FlagsOK ==
  /\ elapsed \in BOOLEAN /\ loop \in BOOLEAN /\ reach \in BOOLEAN
  /\ subscribed \in BOOLEAN /\ willed \in BOOLEAN /\ cut \in BOOLEAN

QueueOK == out \in Seq(Messages) /\ done \in 0 .. InFlight

PlacesOK ==
  /\ pc \in {"start", "wait", "hello", "announce", "poll", "closing",
             "stopping", "dead"}
  /\ link \in {"down", "handshake", "up"}
  /\ last \in Availabilities
  /\ watch \in {"live", "lost", "none"}
  /\ retained \in Availabilities
  /\ restarts \in 0 .. MaxRestarts

LoopOK ==
  /\ pc \in {"wait", "hello", "announce", "poll", "closing"} => loop
  /\ link # "down" => loop

(* They are TypeOK.                                                        *)
LEMMA TypeParts == TypeOK <=> FlagsOK /\ QueueOK /\ PlacesOK /\ LoopOK
BY Zenon DEF TypeOK, FlagsOK, QueueOK, PlacesOK, LoopOK

(* Every step keeps the flags.                                             *)
LEMMA FlagsStep ==
  ASSUME FlagsOK, [Next]_vars
  PROVE  FlagsOK'
<1> USE DEF paho, broker, history, FlagsOK
<1>1. CASE Connect
  BY <1>1, Zenon DEF Connect
<1>2. CASE Connected \/ Elapse \/ Hello \/ Announce \/ Poll
  BY <1>2, Zenon DEF Connected, Elapse, Hello, Announce, Poll
<1>3. CASE BeginClose
  BY <1>3, Zenon DEF BeginClose, Close
<1>4. CASE EndWait \/ Restart \/ Connack \/ Acknowledge
  BY <1>4, Zenon DEF EndWait, Restart, Connack, Acknowledge
<1>5. CASE Goodbye
  <2>1. /\ elapsed' = FALSE /\ loop' = FALSE /\ subscribed' = FALSE
        /\ UNCHANGED <<willed, reach>>
    BY <1>5, Zenon DEF Goodbye, Gone
  <2>2. cut' = cut \/ cut' = (cut \/ (link = "up" /\ Len(out) > InFlight))
    BY <1>5, Zenon DEF Goodbye
  <2>3. cut' \in BOOLEAN
    BY <2>2, Zenon
  <2> QED
    BY <2>1, <2>3, Zenon
<1>6. CASE Kill
  BY <1>6, Zenon DEF Kill, Gone
<1>7. CASE Accept \/ Notice
  BY <1>7, Zenon DEF Accept, Notice, SessionLost, Will
<1>8. CASE SubscriptionArrives \/ Break
  BY <1>8, Zenon DEF SubscriptionArrives, Break
<1>9. CASE Arrive
  BY <1>9, Zenon DEF Arrive
<1>10. CASE BoardChanges
  BY <1>10, Zenon DEF BoardChanges
<1>11. CASE UNCHANGED vars
  BY <1>11, Zenon DEF vars
<1> QED
  BY <1>1, <1>2, <1>3, <1>4, <1>5, <1>6, <1>7, <1>8, <1>9, <1>10, <1>11, Zenon
  DEF Next, MainThread

(* Every step keeps paho's thread behind a waiting process and behind a    *)
(* connection.                                                             *)
LEMMA LoopStep ==
  ASSUME LoopOK, FlagsOK, [Next]_vars
  PROVE  LoopOK'
<1> USE DEF paho, broker, history, LoopOK
<1>1. CASE Connect \/ Connected \/ Elapse \/ Hello \/ Announce \/ Poll \/ EndWait
  BY <1>1 DEF Connect, Connected, Elapse, Hello, Announce, Poll, EndWait
<1>2. CASE BeginClose
  BY <1>2 DEF BeginClose, Close
<1>3. CASE Goodbye \/ Kill \/ Restart
  BY <1>3 DEF Goodbye, Kill, Gone, Restart
<1>4. CASE Accept
  BY <1>4 DEF Accept, LoopRuns
<1>5. CASE Connack \/ SubscriptionArrives \/ Arrive \/ Acknowledge \/ Break
  BY <1>5 DEF Connack, LoopRuns, SubscriptionArrives, Arrive, Acknowledge, Break
<1>6. CASE Notice \/ BoardChanges \/ UNCHANGED vars
  BY <1>6 DEF Notice, BoardChanges, vars
<1> QED
  BY <1>1, <1>2, <1>3, <1>4, <1>5, <1>6 DEF Next, MainThread

(* Every step keeps the other places.                                      *)
LEMMA PlacesStep ==
  ASSUME TypeOK, PlacesOK, [Next]_vars
  PROVE  PlacesOK'
<1> USE DEF paho, broker, history, PlacesOK
<1>1. CASE Connect \/ Connected \/ Elapse \/ Announce \/ EndWait \/ Restart
  BY <1>1, BoundAssumption DEF Connect, Connected, Elapse, Announce, EndWait, Restart
<1>2. CASE Hello \/ Poll
  BY <1>2 DEF Hello, Poll, Publish, Availabilities
<1>3. CASE BeginClose
  BY <1>3 DEF BeginClose, Close, Publish, Availabilities
<1>4. CASE Goodbye
  BY <1>4 DEF Goodbye, Gone, Availabilities
<1>5. CASE Kill
  BY <1>5 DEF Kill, Gone, Availabilities
<1>6. CASE Accept \/ Notice
  BY <1>6 DEF Accept, Notice, SessionLost, Will, Availabilities
<1>7. CASE Arrive
  <2>1. out[done + 1] \in Messages
    BY <1>7, QueueFacts, ElementOfSeq DEF Arrive
  <2> QED
    BY <1>7, <2>1 DEF Arrive, Messages, Availabilities
<1>8. CASE Connack \/ SubscriptionArrives \/ Acknowledge \/ Break
  BY <1>8 DEF Connack, SubscriptionArrives, Acknowledge, Break
<1>9. CASE BoardChanges \/ UNCHANGED vars
  BY <1>9 DEF BoardChanges, vars
<1> QED
  BY <1>1, <1>2, <1>3, <1>4, <1>5, <1>6, <1>7, <1>8, <1>9 DEF Next, MainThread

(* Every step keeps the queue and what the broker has of it.               *)
LEMMA QueueStep ==
  ASSUME TypeOK, [Next]_vars
  PROVE  QueueOK'
<1> USE DEF paho, QueueOK
<1>0. /\ <<>> \in Seq(Messages) /\ Len(<<>>) = 0
      /\ out \in Seq(Messages) /\ done \in 0 .. InFlight
  BY DEF TypeOK
<1>1. CASE UNCHANGED <<out, done>>
  BY <1>0, <1>1 DEF InFlight
<1>2. CASE Hello
  <2>1. Publish(<<>>, "offline") /\ UNCHANGED done
    BY <1>2 DEF Hello
  <2> QED
    BY <2>1, PublishFacts, LongerQueue, QueueFacts
<1>3. CASE Announce
  <2>1. out' \in Seq(Messages) /\ Len(out') >= Len(out) /\ UNCHANGED done
    BY <1>3, QueueFacts, AppendProperties DEF Announce, Messages
  <2> QED
    BY <2>1, LongerQueue
<1>4. CASE Poll
  <2>1. UNCHANGED done /\ (Publish(<<"data">>, "online") \/ Publish(<<>>, "offline"))
    BY <1>4 DEF Poll
  <2>2. out' \in Seq(Messages) /\ Len(out') > Len(out)
    BY <2>1, PublishFacts
  <2> QED
    BY <2>1, <2>2, LongerQueue, QueueFacts
<1>5. CASE BeginClose
  <2>1. Publish(<<>>, "offline") /\ UNCHANGED done
    BY <1>5 DEF BeginClose, Close
  <2> QED
    BY <2>1, PublishFacts, LongerQueue, QueueFacts
<1>6. CASE out' = <<>> /\ done' = 0
  BY <1>0, <1>6, WindowAssumption DEF InFlight
<1>7. CASE UNCHANGED out /\ done' = 0
  BY <1>0, <1>7, QueueFacts DEF InFlight
<1>8. CASE Arrive
  BY <1>0, <1>8, QueueFacts DEF Arrive, InFlight
<1>9. CASE Acknowledge
  BY <1>9, AcknowledgeFacts
<1> QED
  <2>1. Goodbye \/ Kill => out' = <<>> /\ done' = 0
    BY DEF Goodbye, Kill, Gone
  <2>2. Accept \/ Break => UNCHANGED out /\ done' = 0
    BY DEF Accept, Break
  <2>3. Connect \/ Connected \/ Elapse \/ EndWait \/ Restart => UNCHANGED <<out, done>>
    BY DEF Connect, Connected, Elapse, EndWait, Restart
  <2>4. Connack \/ SubscriptionArrives \/ Notice \/ BoardChanges \/ UNCHANGED vars
          => UNCHANGED <<out, done>>
    BY DEF Connack, SubscriptionArrives, Notice, BoardChanges, vars
  <2> QED
    BY <1>1, <1>2, <1>3, <1>4, <1>5, <1>6, <1>7, <1>8, <1>9, <2>1, <2>2, <2>3, <2>4
    DEF Next, MainThread

(* Every step keeps the types.                                             *)
LEMMA TypeStep ==
  ASSUME TypeOK, [Next]_vars
  PROVE  TypeOK'
<1>1. FlagsOK /\ QueueOK /\ PlacesOK /\ LoopOK
  BY TypeParts
<1>2. FlagsOK' /\ QueueOK' /\ PlacesOK' /\ LoopOK'
  BY <1>1, FlagsStep, QueueStep, PlacesStep, LoopStep
<1>3. TypeOK' <=> FlagsOK' /\ QueueOK' /\ PlacesOK' /\ LoopOK'
  BY TypeParts, PTL
<1> QED
  BY <1>2, <1>3

(* The types hold in every state.                                          *)
THEOREM TypesHold == Spec => []TypeOK
<1>1. Init => TypeOK
  <2>1. Init => FlagsOK
    BY Zenon DEF Init, FlagsOK
  <2>2. Init => QueueOK /\ PlacesOK /\ LoopOK
    BY WindowAssumption, BoundAssumption
    DEF Init, QueueOK, PlacesOK, LoopOK, InFlight, Availabilities
  <2> QED
    BY <2>1, <2>2, TypeParts
<1>2. TypeOK /\ [Next]_vars => TypeOK'
  BY TypeStep
<1> QED
  BY <1>1, <1>2, PTL DEF Spec

-----------------------------------------------------------------------------
(* The invariant behind GoneMeansOffline.                                  *)

(* Publishing "offline" on the way out begins what Closing says.           *)
LEMMA CloseStep ==
  ASSUME TypeOK, SessionInvariant, BeginClose
  PROVE  SessionInvariant'
<1>1. /\ Publish(<<>>, "offline")
      /\ UNCHANGED <<link, done, watch, retained, cut>>
  BY DEF BeginClose, Close, broker, history
<1>2. /\ out' # <<>> /\ out'[Len(out')] = "offline"
      /\ Len(out') > Len(out) /\ done <= Len(out)
      /\ done \in Nat /\ Len(out) \in Nat /\ Len(out') \in Nat
  BY <1>1, PublishFacts, QueueFacts
<1> QED
  BY <1>1, <1>2 DEF SessionInvariant, Closing

(* An orderly end leaves the board offline, or publications behind.        *)
LEMMA GoodbyeStep ==
  ASSUME TypeOK, SessionInvariant, Goodbye
  PROVE  SessionInvariant'
<1>1. /\ pc = "stopping" /\ pc' = "dead" /\ link' = "down"
      /\ UNCHANGED retained
  BY DEF Goodbye, Gone
<1>2. CASE link = "down"
  <2>1. UNCHANGED <<watch, cut>>
    BY <1>2 DEF Goodbye
  <2> QED
    BY <1>1, <2>1, Zenon DEF SessionInvariant, Closing
<1>3. CASE link = "handshake"
  <2>1. retained # "online" \/ cut
    BY <1>3 DEF SessionInvariant
  <2>2. cut => cut'
    BY <1>3, Zenon DEF Goodbye
  <2>3. retained' # "online" \/ cut'
    BY <1>1, <2>1, <2>2, Zenon
  <2> QED
    BY <1>1, <2>3 DEF SessionInvariant, Closing
<1>4. CASE link = "up" /\ Len(out) > InFlight
  <2>1. cut'
    BY <1>4, Zenon DEF Goodbye
  <2> QED
    BY <1>1, <2>1 DEF SessionInvariant, Closing
<1>5. CASE link = "up" /\ ~(Len(out) > InFlight)
  <2>1. done = InFlight
    BY <1>5 DEF Goodbye
  <2>2. done = Len(out)
    BY <1>5, <2>1, QueueFacts
  <2>3. retained = "offline"
    BY <1>1, <2>2 DEF SessionInvariant, Closing
  <2> QED
    BY <1>1, <2>3 DEF SessionInvariant, Closing
<1> QED
  BY <1>2, <1>3, <1>4, <1>5 DEF TypeOK

(* A publication that the broker takes while the process closes.           *)
LEMMA ArriveStep ==
  ASSUME TypeOK, SessionInvariant, Arrive
  PROVE  SessionInvariant'
<1>1. /\ link = "up" /\ done < InFlight /\ done' = done + 1
      /\ UNCHANGED <<pc, link, out, watch>>
  BY DEF Arrive
<1>2. watch' = "live" /\ link' = "up"
  BY <1>1 DEF SessionInvariant
<1>3. ASSUME pc \in {"closing", "stopping"}, done' = Len(out)
      PROVE  retained' = "offline"
  <2>1. out # <<>> /\ out[done + 1] = "offline"
    BY <1>1, <1>3, QueueFacts DEF SessionInvariant, Closing
  <2> QED
    BY <2>1 DEF Arrive
<1>4. Closing'
  BY <1>1, <1>3 DEF SessionInvariant, Closing
<1> QED
  BY <1>2, <1>4 DEF SessionInvariant

(* An acknowledgement while the process closes.                            *)
LEMMA AcknowledgeStep ==
  ASSUME TypeOK, SessionInvariant, Acknowledge
  PROVE  SessionInvariant'
<1>1. /\ out' \in Seq(Messages) /\ Len(out') = Len(out) - 1 /\ Len(out') \in Nat
      /\ \A i \in 1 .. Len(out') : out'[i] = out[i + 1]
      /\ done' = done - 1
      /\ UNCHANGED <<pc, watch, retained, cut, link>>
  BY AcknowledgeFacts
<1>2. out' # <<>> => out # <<>> /\ out'[Len(out')] = out[Len(out)]
  BY <1>1, QueueFacts
<1>3. done' = Len(out') => done = Len(out)
  BY <1>1, QueueFacts
<1> QED
  BY <1>1, <1>2, <1>3 DEF SessionInvariant, Closing

(* The will makes the board offline; otherwise nothing is published.       *)
LEMMA SessionLostFacts ==
  ASSUME TypeOK, SessionInvariant, SessionLost
  PROVE  /\ retained' # "online" \/ cut'
         /\ retained' \in {retained, "offline"}
BY Zenon DEF SessionInvariant, SessionLost, Will

(* Every step keeps the invariant.                                         *)
LEMMA SessionStep ==
  ASSUME TypeOK, SessionInvariant, [Next]_vars
  PROVE  SessionInvariant'
<1> USE DEF paho, broker, history
<1>1. CASE Connect \/ Connected \/ Elapse \/ SubscriptionArrives \/ BoardChanges
           \/ EndWait \/ Restart \/ UNCHANGED vars
  <2>1. UNCHANGED <<link, out, done, watch, retained, cut>>
    BY <1>1 DEF Connect, Connected, Elapse, SubscriptionArrives, BoardChanges,
       EndWait, Restart, vars
  <2>2. pc' \in {"closing", "stopping"} => pc \in {"closing", "stopping"}
    BY <1>1 DEF Connect, Connected, Elapse, SubscriptionArrives, BoardChanges,
       EndWait, Restart, vars
  <2> QED
    BY <2>1, <2>2 DEF SessionInvariant, Closing
<1>2. CASE Hello \/ Announce \/ Poll
  <2>1. /\ UNCHANGED <<link, watch, retained, cut>>
        /\ pc' \notin {"closing", "stopping"}
    BY <1>2 DEF Hello, Announce, Poll
  <2> QED
    BY <2>1 DEF SessionInvariant, Closing
<1>3. CASE Kill
  <2>1. /\ link' = "down" /\ pc' = "dead" /\ UNCHANGED <<retained, cut>>
        /\ watch' = "none" => watch = "none"
    BY <1>3 DEF Kill, Gone
  <2> QED
    BY <2>1 DEF SessionInvariant, Closing
<1>4. CASE Accept
  <2>1. /\ link' = "handshake" /\ watch' = "live" /\ done' = 0 /\ link = "down"
        /\ UNCHANGED <<pc, out>>
    BY <1>4 DEF Accept
  <2>2. (retained' # "online" \/ cut') /\ retained' \in {retained, "offline"}
    BY <1>4, SessionLostFacts DEF Accept
  <2>3. done' = Len(out') => done = Len(out)
    BY <2>1, QueueFacts
  <2>4. Closing'
    BY <2>1, <2>2, <2>3 DEF SessionInvariant, Closing
  <2> QED
    BY <2>1, <2>2, <2>4 DEF SessionInvariant
<1>5. CASE Connack
  BY <1>5 DEF Connack, SessionInvariant, Closing
<1>6. CASE Break
  <2>1. /\ link' = "down" /\ watch' = "lost" /\ done' = 0
        /\ UNCHANGED <<pc, out, retained>>
    BY <1>6 DEF Break
  <2>2. done' = Len(out') => done = Len(out)
    BY <2>1, QueueFacts
  <2> QED
    BY <2>1, <2>2 DEF SessionInvariant, Closing
<1>7. CASE Notice
  <2>1. watch = "lost" /\ watch' = "none" /\ UNCHANGED <<pc, link, out, done>>
    BY <1>7 DEF Notice
  <2>2. (retained' # "online" \/ cut') /\ retained' \in {retained, "offline"}
    BY <1>7, SessionLostFacts DEF Notice
  <2> QED
    BY <2>1, <2>2 DEF SessionInvariant, Closing
<1> QED
  BY <1>1, <1>2, <1>3, <1>4, <1>5, <1>6, <1>7, CloseStep, GoodbyeStep, ArriveStep,
     AcknowledgeStep DEF Next, MainThread

(* Whatever ends the process, and whatever the connection did before: once *)
(* the broker has given up the session the board is not shown online, but  *)
(* for a goodbye behind a full window.                                     *)
THEOREM GoneIsOffline == Spec => []GoneMeansOffline
<1>1. Init => SessionInvariant
  BY DEF Init, SessionInvariant, Closing
<1>2. TypeOK /\ SessionInvariant /\ [Next]_vars => SessionInvariant'
  BY SessionStep
<1>3. SessionInvariant => GoneMeansOffline
  BY DEF SessionInvariant, GoneMeansOffline
<1> QED
  BY <1>1, <1>2, <1>3, TypesHold, PTL DEF Spec

-----------------------------------------------------------------------------
(* The invariant behind RetainedIsLast.                                    *)

(* A new availability at the end of the queue is the last one, and waits.  *)
LEMMA OrderPublish ==
  ASSUME TypeOK, NEW data \in {<<>>, <<"data">>}, NEW a \in {"online", "offline"},
         Publish(data, a), UNCHANGED done
  PROVE  OrderInvariant'
<1>1. /\ out' \in Seq(Messages) /\ DOMAIN out' = 1 .. Len(out') /\ Len(out') \in Nat
      /\ Len(out') > Len(out) /\ out'[Len(out')] = a /\ last' = a
  BY PublishFacts, LenProperties
<1>2. Len(out') \in DOMAIN out' /\ Len(out') > done' /\ a # "data"
  BY <1>1, QueueFacts
<1>3. ASSUME NEW i \in DOMAIN out',
             \A j \in DOMAIN out' : j > i => out'[j] = "data"
      PROVE  i = Len(out')
  BY <1>1, <1>2, <1>3
<1> QED
  BY <1>1, <1>2, <1>3 DEF OrderInvariant

(* Other publications behind it leave it the last one.                     *)
LEMMA OrderAnnounce ==
  ASSUME TypeOK, OrderInvariant, Announce
  PROVE  OrderInvariant'
<1>1. /\ out' = Append(out, "data") /\ "data" \in Messages
      /\ UNCHANGED <<done, last, willed, retained>>
  BY DEF Announce, Messages, broker, history
<1>2. /\ out' \in Seq(Messages) /\ DOMAIN out' = 1 .. Len(out) + 1
      /\ \A i \in DOMAIN out : i \in DOMAIN out' /\ out'[i] = out[i]
      /\ out'[Len(out) + 1] = "data"
      /\ \A i \in DOMAIN out' : i \in DOMAIN out \/ i = Len(out) + 1
  BY <1>1, QueueFacts, AppendProperties, LenProperties
<1>3. \A i \in DOMAIN out' :
        out'[i] # "data" /\ (\A j \in DOMAIN out' : j > i => out'[j] = "data")
          => out'[i] = last'
  BY <1>1, <1>2 DEF OrderInvariant
<1>4. (\A j \in DOMAIN out' : j > done' => out'[j] = "data")
        => \A j \in DOMAIN out : j > done => out[j] = "data"
  BY <1>1, <1>2
<1> QED
  BY <1>1, <1>3, <1>4 DEF OrderInvariant

(* When the broker takes the last availability it is the last published.   *)
LEMMA OrderArrive ==
  ASSUME TypeOK, OrderInvariant, Arrive
  PROVE  OrderInvariant'
<1>1. /\ done' = done + 1 /\ UNCHANGED <<out, last>>
      /\ done + 1 \in DOMAIN out
  BY QueueFacts DEF Arrive
<1>2. ASSUME last' # "none", ~willed',
             \A j \in DOMAIN out' : j > done' => out'[j] = "data"
      PROVE  retained' = last'
  <2>1. CASE out[done + 1] = "data"
    <3>1. UNCHANGED <<retained, willed>>
      BY <2>1 DEF Arrive, history
    <3>2. \A j \in DOMAIN out : j > done => out[j] = "data"
      BY <1>1, <1>2, <2>1, QueueFacts
    <3> QED
      BY <1>1, <1>2, <3>1, <3>2 DEF OrderInvariant
  <2>2. CASE out[done + 1] # "data"
    <3>1. retained' = out[done + 1]
      BY <2>2 DEF Arrive
    <3>2. out[done + 1] = last
      BY <1>1, <1>2, <2>2 DEF OrderInvariant
    <3> QED
      BY <1>1, <3>1, <3>2
  <2> QED
    BY <2>1, <2>2
<1> QED
  BY <1>1, <1>2 DEF OrderInvariant

(* What is acknowledged, the broker had.                                   *)
LEMMA OrderAcknowledge ==
  ASSUME TypeOK, OrderInvariant, Acknowledge
  PROVE  OrderInvariant'
<1>1. /\ out' \in Seq(Messages) /\ Len(out') = Len(out) - 1
      /\ DOMAIN out' = 1 .. Len(out')
      /\ \A i \in 1 .. Len(out') : out'[i] = out[i + 1]
      /\ done' = done - 1
      /\ UNCHANGED <<last, retained, willed>>
  BY AcknowledgeFacts, LenProperties
<1>2. \A i \in DOMAIN out' : i + 1 \in DOMAIN out /\ out'[i] = out[i + 1]
  BY <1>1, QueueFacts
<1>3. done >= 1
  BY QueueFacts DEF Acknowledge
<1>4. \A i \in DOMAIN out : i > 1 => i - 1 \in DOMAIN out' /\ out'[i - 1] = out[i]
  BY <1>1, QueueFacts
<1>5. ASSUME NEW i \in DOMAIN out', out'[i] # "data",
             \A j \in DOMAIN out' : j > i => out'[j] = "data"
      PROVE  out'[i] = last'
  <2>1. \A j \in DOMAIN out : j > i + 1 => out[j] = "data"
    <3> SUFFICES ASSUME NEW j \in DOMAIN out, j > i + 1
                 PROVE  out[j] = "data"
      OBVIOUS
    <3>1. i \in Nat /\ j \in Nat /\ i >= 1
      BY <1>1, QueueFacts
    <3>2. j - 1 \in DOMAIN out' /\ out'[j - 1] = out[j] /\ j - 1 > i
      BY <1>4, <3>1
    <3> QED
      BY <1>5, <3>2
  <2> QED
    BY <1>1, <1>2, <1>5, <2>1, QueueFacts DEF OrderInvariant
<1>6. (\A j \in DOMAIN out' : j > done' => out'[j] = "data")
        => \A j \in DOMAIN out : j > done => out[j] = "data"
  BY <1>1, <1>3, <1>4, QueueFacts
<1> QED
  BY <1>1, <1>5, <1>6 DEF OrderInvariant

(* A will says so in the history; otherwise nothing is published.          *)
LEMMA OrderSessionLost ==
  ASSUME TypeOK, OrderInvariant, SessionLost, UNCHANGED <<out, last>>,
         done' \in {0, done}
  PROVE  OrderInvariant'
<1>1. willed' \/ UNCHANGED <<willed, retained>>
  BY Zenon DEF SessionLost, Will
<1>2. \A i \in DOMAIN out :
        out[i] # "data" /\ (\A j \in DOMAIN out : j > i => out[j] = "data")
          => out[i] = last
  BY DEF OrderInvariant
<1>3. (\A j \in DOMAIN out : j > done' => out[j] = "data")
        => \A j \in DOMAIN out : j > done => out[j] = "data"
  BY QueueFacts
<1>4. CASE willed'
  BY <1>2, <1>4 DEF OrderInvariant
<1>5. CASE UNCHANGED <<willed, retained>>
  BY <1>2, <1>3, <1>5 DEF OrderInvariant
<1> QED
  BY <1>1, <1>4, <1>5, Zenon

(* Every step keeps the invariant.                                         *)
LEMMA OrderStep ==
  ASSUME TypeOK, OrderInvariant, [Next]_vars
  PROVE  OrderInvariant'
<1> USE DEF paho, broker, history
<1>1. CASE Connect \/ Connected \/ Elapse \/ SubscriptionArrives \/ BoardChanges
           \/ EndWait \/ Restart \/ Connack \/ UNCHANGED vars
  <2>1. UNCHANGED <<out, done, last, willed, retained>>
    BY <1>1 DEF Connect, Connected, Elapse, SubscriptionArrives, BoardChanges,
       EndWait, Restart, Connack, vars
  <2> QED
    BY <2>1 DEF OrderInvariant
<1>2. CASE Hello
  BY <1>2, OrderPublish DEF Hello
<1>3. CASE Poll
  BY <1>3, OrderPublish DEF Poll
<1>4. CASE BeginClose
  BY <1>4, OrderPublish DEF BeginClose, Close
<1>5. CASE Goodbye \/ Kill
  <2>1. out' = <<>> /\ last' = "none"
    BY <1>5 DEF Goodbye, Kill, Gone
  <2> QED
    BY <2>1 DEF OrderInvariant
<1>6. CASE Accept \/ Notice
  <2>1. SessionLost /\ UNCHANGED <<out, last>> /\ done' \in {0, done}
    <3>1. CASE Accept
      BY <3>1 DEF Accept
    <3>2. CASE Notice
      BY <3>2 DEF Notice
    <3> QED
      BY <1>6, <3>1, <3>2
  <2> QED
    BY <2>1, OrderSessionLost
<1>7. CASE Break
  <2>1. done' = 0 /\ UNCHANGED <<out, last, retained, willed>>
    BY <1>7 DEF Break
  <2>2. (\A j \in DOMAIN out : j > done' => out[j] = "data")
          => \A j \in DOMAIN out : j > done => out[j] = "data"
    BY <2>1, QueueFacts
  <2> QED
    BY <2>1, <2>2 DEF OrderInvariant
<1> QED
  BY <1>1, <1>2, <1>3, <1>4, <1>5, <1>6, <1>7, OrderAnnounce, OrderArrive,
     OrderAcknowledge DEF Next, MainThread

(* Repeated, resumed and interrupted deliveries never leave an older       *)
(* availability retained than the last one published, but for a will.      *)
THEOREM LastIsRetained == Spec => []RetainedIsLast
<1>1. Init => OrderInvariant
  BY DEF Init, OrderInvariant
<1>2. TypeOK /\ OrderInvariant /\ [Next]_vars => OrderInvariant'
  BY OrderStep
<1>3. OrderInvariant => RetainedIsLast
  BY DEF OrderInvariant, RetainedIsLast
<1> QED
  BY <1>1, <1>2, <1>3, TypesHold, PTL DEF Spec
=============================================================================
