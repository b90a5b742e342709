------------------------ MODULE MqttSessionProperties ------------------------
(***************************************************************************)
(* What the session promises about availability and commands.              *)
(***************************************************************************)
EXTENDS MqttSession

(* Every variable keeps its type; the broker never has more publications   *)
(* of a connection than were sent on it, and whoever waits for paho's      *)
(* thread has started it, without which there is no connection.            *)
TypeOK ==
  /\ pc \in {"start", "wait", "hello", "announce", "poll", "closing",
             "stopping", "dead"}
  /\ elapsed \in BOOLEAN
  /\ loop \in BOOLEAN
  /\ link \in {"down", "handshake", "up"}
  /\ out \in Seq(Messages)
  /\ done \in 0 .. InFlight
  /\ last \in Availabilities
  /\ reach \in BOOLEAN
  /\ watch \in {"live", "lost", "none"}
  /\ subscribed \in BOOLEAN
  /\ retained \in Availabilities
  /\ restarts \in 0 .. MaxRestarts
  /\ willed \in BOOLEAN
  /\ cut \in BOOLEAN
  /\ pc \in {"wait", "hello", "announce", "poll", "closing"} => loop
  /\ link # "down" => loop

(* When the process is gone and the broker has given its session up, the   *)
(* board is not shown online: by the will after a kill, by the publication *)
(* of disconnect() after an orderly end, which discards the will.  The one *)
(* exception is an orderly end with a full window in front of that         *)
(* publication.                                                            *)
GoneMeansOffline ==
  pc = "dead" /\ watch = "none" /\ ~cut => retained # "online"

(* Between connections too, the retained availability is a will's or, when *)
(* nothing is left to send, what the process published last: losing and    *)
(* repeating publications never leaves an older one retained.              *)
RetainedIsLast ==
  out = <<>> /\ last # "none" /\ ~willed => retained = last

(* "availability is driven by telemetry reachability: successful polls     *)
(* publish online; failed cycles publish offline" (README 228): it settles *)
(* on the outcome of the polls once the connection stays, whatever wills   *)
(* of earlier connections were published meanwhile.                        *)
AvailabilitySettles ==
  \A r \in BOOLEAN :
    <>[](link = "up" /\ reach = r) =>
      <>[](retained = IF r THEN "online" ELSE "offline")

(* Once a connection stays, commands reach the process (_on_connect).      *)
CommandsReachable ==
  ControlsEnabled => (<>[](link = "up") => <>[]subscribed)

(* close() ends, whatever the broker does.                                 *)
ShutdownEnds == pc = "closing" ~> pc = "dead"
=============================================================================
