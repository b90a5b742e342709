----------------------------- MODULE MqttSession -----------------------------
(***************************************************************************)
(* The session of one bridge process with the broker (mqtt_bridge.py, and  *)
(* the parts of bridge.py and main.py that connect, publish and close).    *)
(*                                                                         *)
(* Two threads: the main thread connects, publishes and shuts down; paho's *)
(* thread keeps the connection, resends what was not acknowledged and runs *)
(* the callbacks.  The broker keeps the retained availability and          *)
(* publishes the will of a session that ends without DISCONNECT, at the    *)
(* latest when the same client id connects again.                          *)
(*                                                                         *)
(* paho and the broker are external: QoS 1 publications are sent in order, *)
(* at most Window unacknowledged ones at a time, and sent again on a new   *)
(* connection; sessions are clean, so a subscription ends with its         *)
(* connection.  Of the publications only the availability has a content    *)
(* here; the state, raw and discovery topics take their place in the queue *)
(* as "data".                                                              *)
(***************************************************************************)
EXTENDS Naturals, Sequences

CONSTANTS
  ControlsEnabled,  \* controls.enabled
  Window,           \* paho's limit of unacknowledged publications
  MaxOut,           \* bound: publications waiting in paho
  MaxRestarts       \* bound: restarts in a behaviour

ASSUME ControlsAssumption == ControlsEnabled \in BOOLEAN
ASSUME WindowAssumption == Window \in Nat \ {0}
ASSUME BoundAssumption == MaxOut \in Nat /\ MaxRestarts \in Nat

Messages == {"online", "offline", "data"}
Availabilities == {"online", "offline", "none"}

VARIABLES
  pc,          \* the main thread
  elapsed,     \* the timeout of the main thread's wait is over
  loop,        \* paho's thread runs
  link,        \* the connection as paho sees it: down, handshake, up
  out,         \* publications not acknowledged, oldest first
  done,        \* how many of them the broker has on this connection
  last,        \* the availability this process published last
  reach,       \* the board answers a poll
  watch,       \* broker: a session is live, is lost but not noticed, or none
  subscribed,  \* a command published now reaches the process
  retained,    \* broker: the retained availability
  restarts,    \* restarts so far
  willed,      \* history: the retained availability is a will's
  cut          \* history: a goodbye left publications behind a full window

paho == <<loop, link, out, done>>
broker == <<watch, subscribed, retained>>
history == <<willed, cut>>
vars == <<pc, elapsed, paho, last, reach, broker, restarts, history>>

Init ==
  /\ pc = "start" /\ elapsed = FALSE
  /\ loop = FALSE /\ link = "down" /\ out = <<>> /\ done = 0
  /\ last = "none"
  /\ reach \in BOOLEAN
  /\ watch = "none" /\ subscribed = FALSE /\ retained = "none"
  /\ restarts = 0
  /\ willed = FALSE /\ cut = FALSE

InFlight == IF Len(out) < Window THEN Len(out) ELSE Window

(* The broker publishes the will.                                          *)
Will ==
  /\ retained' = "offline"
  /\ willed' = TRUE
  /\ UNCHANGED cut

-----------------------------------------------------------------------------
(* The main thread.                                                        *)

(* Mutant: the publications have QoS 0, and paho drops them while it is    *)
(* not connected.                                                          *)
PublishIfConnected(data, availability) ==
  /\ out' = IF link = "up" THEN out \o data \o <<availability>> ELSE out
  /\ last' = availability

(* Mutant: an availability that has not changed is not published again.    *)
PublishChanges(data, availability) ==
  /\ out' = IF availability = last THEN out \o data
            ELSE out \o data \o <<availability>>
  /\ last' = availability

(* publish_snapshot or nothing, then publish_availability.                 *)
Publish(data, availability) ==
  /\ out' = out \o data \o <<availability>>
  /\ last' = availability

(* Mutant: paho's thread is not started.                                   *)
ConnectOnly ==
  /\ pc = "start"
  /\ pc' = "wait"
  /\ elapsed' = FALSE
  /\ UNCHANGED <<loop, link, out, done, last, reach, broker, restarts, history>>

(* HomeAssistantPublisher.connect: paho opens the connection, or raises;   *)
(* its thread is started behind that.                                      *)
Connect ==
  /\ pc = "start"
  /\ pc' = "wait"
  /\ elapsed' = FALSE
  /\ loop' = TRUE
  /\ UNCHANGED <<link, out, done, last, reach, broker, restarts, history>>

(* _connected is set.                                                      *)
Connected ==
  /\ pc = "wait"
  /\ link = "up"
  /\ pc' = "hello"
  /\ UNCHANGED <<elapsed, paho, last, reach, broker, restarts, history>>

(* The main thread waits ten seconds for the connection and two for the    *)
(* last publication.                                                       *)
Elapse ==
  /\ pc \in {"wait", "closing"}
  /\ ~elapsed
  /\ elapsed' = TRUE
  /\ UNCHANGED <<pc, paho, last, reach, broker, restarts, history>>

(* OnewheelBridge.connect: offline until a poll has succeeded.             *)
Hello ==
  /\ pc = "hello"
  /\ Publish(<<>>, "offline")
  /\ pc' = "announce"
  /\ UNCHANGED <<elapsed, loop, link, done, reach, broker, restarts, history>>

(* publish_discovery.                                                      *)
Announce ==
  /\ pc = "announce"
  /\ out' = Append(out, "data")
  /\ pc' = "poll"
  /\ UNCHANGED <<elapsed, loop, link, done, last, reach, broker, restarts,
                 history>>

(* poll_cycle.                                                             *)
Poll ==
  /\ pc = "poll"
  /\ Len(out) + 2 <= MaxOut
  /\ IF reach THEN Publish(<<"data">>, "online") ELSE Publish(<<>>, "offline")
  /\ UNCHANGED <<pc, elapsed, loop, link, done, reach, broker, restarts,
                 history>>

(* Mutant: nothing is published before the session is closed.              *)
CloseSilently ==
  /\ pc' = "stopping"
  /\ UNCHANGED <<elapsed, out, last>>

(* HomeAssistantPublisher.disconnect, up to the wait: paho refuses to wait  *)
(* for a publication it could not send.                                    *)
Close ==
  /\ Publish(<<>>, "offline")
  /\ pc' = IF link = "up" THEN "closing" ELSE "stopping"
  /\ elapsed' = FALSE

(* The process ends through main's finally: the broker cannot be reached,  *)
(* the connection was not made in time, an interrupt, an error.            *)
BeginClose ==
  /\ \/ pc = "wait" /\ elapsed
     \/ pc \in {"start", "wait", "hello", "announce", "poll"}
  /\ Close
  /\ UNCHANGED <<loop, link, done, reach, broker, restarts, history>>

(* Mutant: the wait has no timeout.                                        *)
WaitOverIfPublished == out = <<>>

(* wait_for_publish of the last publication.                               *)
WaitOver == out = <<>> \/ elapsed

EndWait ==
  /\ pc = "closing"
  /\ WaitOver
  /\ pc' = "stopping"
  /\ UNCHANGED <<elapsed, paho, last, reach, broker, restarts, history>>

(* What is left of a process that is gone.                                 *)
Gone ==
  /\ pc' = "dead"
  /\ elapsed' = FALSE
  /\ loop' = FALSE /\ link' = "down" /\ out' = <<>> /\ done' = 0
  /\ last' = "none"
  /\ subscribed' = FALSE

(* loop_stop and disconnect: DISCONNECT follows what was sent before it on *)
(* the connection, and the broker discards the will.                       *)
Goodbye ==
  /\ pc = "stopping"
  /\ Gone
  /\ IF link = "down"
       THEN UNCHANGED <<watch, cut>>
       ELSE /\ link = "up" => done = InFlight
            /\ watch' = "none"
            /\ cut' = (cut \/ (link = "up" /\ Len(out) > InFlight))
  /\ UNCHANGED <<retained, willed, reach, restarts>>

(* SIGTERM has no handler, so it ends the process like any kill.           *)
Kill ==
  /\ pc # "dead"
  /\ Gone
  /\ watch' = IF watch = "live" THEN "lost" ELSE watch
  /\ UNCHANGED <<retained, reach, restarts, history>>

(* The supervisor starts it again.                                         *)
Restart ==
  /\ pc = "dead"
  /\ restarts < MaxRestarts
  /\ restarts' = restarts + 1
  /\ pc' = "start"
  /\ UNCHANGED <<elapsed, paho, last, reach, broker, history>>

-----------------------------------------------------------------------------
(* paho's thread and the broker.                                           *)

(* From loop_start to loop_stop.                                           *)
LoopRuns == loop /\ pc # "stopping"

(* The will of a session that the broker has given up.                     *)
SessionLost ==
  IF watch = "none" THEN UNCHANGED <<retained, willed, cut>> ELSE Will

(* The broker accepts CONNECT; it closes an older session of the client    *)
(* id, whose will it publishes.                                            *)
Accept ==
  /\ LoopRuns
  /\ link = "down"
  /\ link' = "handshake"
  /\ done' = 0
  /\ SessionLost
  /\ watch' = "live"
  /\ UNCHANGED <<pc, elapsed, loop, out, last, reach, subscribed, restarts>>

(* CONNACK: _on_connect subscribes again on every connection.              *)
Connack ==
  /\ link = "handshake"
  /\ LoopRuns
  /\ link' = "up"
  /\ UNCHANGED <<pc, elapsed, loop, out, done, last, reach, broker, restarts,
                 history>>

(* Mutant: only the first connection subscribes.                           *)
SubscribesOnce == ControlsEnabled /\ pc = "wait"

Subscribes == ControlsEnabled

(* The broker has the subscription.                                        *)
SubscriptionArrives ==
  /\ link = "up"
  /\ Subscribes
  /\ ~subscribed
  /\ subscribed' = TRUE
  /\ UNCHANGED <<pc, elapsed, paho, last, reach, watch, retained, restarts,
                 history>>

(* The broker has the next publication and retains it.                     *)
Arrive ==
  /\ link = "up"
  /\ done < InFlight
  /\ done' = done + 1
  /\ IF out[done + 1] = "data" THEN UNCHANGED <<retained, history>>
     ELSE retained' = out[done + 1] /\ willed' = FALSE /\ cut' = FALSE
  /\ UNCHANGED <<pc, elapsed, loop, link, out, last, reach, watch, subscribed,
                 restarts>>

(* PUBACK.                                                                 *)
Acknowledge ==
  /\ link = "up"
  /\ LoopRuns
  /\ done > 0
  /\ out' = Tail(out)
  /\ done' = done - 1
  /\ UNCHANGED <<pc, elapsed, loop, link, last, reach, broker, restarts,
                 history>>

(* The connection breaks: _on_disconnect.  The broker may not know yet.    *)
Break ==
  /\ link # "down"
  /\ link' = "down"
  /\ done' = 0
  /\ watch' = "lost"
  /\ subscribed' = FALSE
  /\ UNCHANGED <<pc, elapsed, loop, out, last, reach, retained, restarts,
                 history>>

(* The broker sees the connection closed, or misses the keepalive.         *)
Notice ==
  /\ watch = "lost"
  /\ SessionLost
  /\ watch' = "none"
  /\ UNCHANGED <<pc, elapsed, paho, last, reach, subscribed, restarts>>

BoardChanges ==
  /\ reach' = ~reach
  /\ UNCHANGED <<pc, elapsed, paho, last, broker, restarts, history>>

MainThread ==
  Connect \/ Connected \/ Hello \/ Announce \/ Poll \/ EndWait \/ Goodbye

Next ==
  \/ MainThread
  \/ Elapse
  \/ BeginClose
  \/ Kill
  \/ Restart
  \/ Accept \/ Connack \/ SubscriptionArrives \/ Arrive \/ Acknowledge
  \/ Break \/ Notice
  \/ BoardChanges

Spec == Init /\ [][Next]_vars

(* The main thread never blocks without a timeout; paho tries again at     *)
(* least every 30 seconds, and broker and connection, while there is one,  *)
(* carry on.  A kept connection moves everything that waits on it.         *)
FairSpec ==
  /\ Spec
  /\ WF_vars(MainThread)
  /\ WF_vars(Elapse)
  /\ WF_vars(pc = "wait" /\ elapsed /\ BeginClose)
  /\ WF_vars(Accept) /\ WF_vars(Connack) /\ WF_vars(SubscriptionArrives)
  /\ WF_vars(Arrive) /\ WF_vars(Acknowledge) /\ WF_vars(Notice)
=============================================================================
