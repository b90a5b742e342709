---------------------- MODULE OnewheelBridgeProperties ----------------------
(***************************************************************************)
(* What the bridge promises, stated over the board, the broker and the     *)
(* histories of OnewheelBridge.                                            *)
(***************************************************************************)
EXTENDS OnewheelBridge

(* Every variable keeps its type; the queue never exceeds the bound of     *)
(* MAX_CONTROL_QUEUE_SIZE, and the resolved CAN ids stay CAN ids.          *)
TypeOK ==
  /\ board \in Boards
  /\ pc \in {"connect", "firmware", "nodes", "info", "ids", "announce",
             "controller", "bms", "realtime", "lights", "polled", "sleep",
             "drain", "cooldown", "write", "report"}
  /\ caller \in {"connect", "control", "cycle"}
  /\ cache \in CacheType
  /\ snap \in SnapshotType
  /\ tried \subseteq CanIds
  /\ thorCanId \in CanIds
  /\ bmsCanId \in CanIds
  /\ age \in 0 .. Cooldown
  /\ sinceOk \in 0 .. Cooldown
  /\ sinceWrite \in 0 .. Cooldown
  /\ lastWritten \in Ids \union {None}
  /\ pollCount \in 0 .. StaticRefreshEvery - 1
  /\ queue \in Seq(Ids) /\ Len(queue) <= QueueSize
  /\ cmd \in Ids \union {None}
  /\ pending \in Statuses \union {None}
  /\ availability \in {"online", "offline"}
  /\ retained \in Statuses \union {None}
  /\ ledButtons \in BOOLEAN
  /\ restarts \in 0 .. MaxRestarts
  /\ requests \in Seq(Payloads) /\ Len(requests) <= MaxCommands
  /\ accepted \subseteq Ids
  /\ written \subseteq Ids
  /\ outcome \in [Ids -> {"none", "ok", "rejected"}]
  /\ seen \subseteq Boards

(* The ledger the bridge implements: FIFO, one command at a time, at most   *)
(* one outcome each, "ok" only after the write, nothing lost but by a      *)
(* restart (bridge.py 57-82, 235-275).                                     *)
Ledger ==
  INSTANCE CommandLedger WITH
    Capacity <- QueueSize, waiting <- queue, running <- cmd

LedgerSpec == Ledger!LedgerSpec

-----------------------------------------------------------------------------
(* What is known of the board when a write frame is about to be sent.  The *)
(* telemetry is read in several steps and the board moves on between them, *)
(* so the promise is about the time since the command was dequeued.        *)

Idle(b) ==
  ~b.ride.running /\ b.ride.speed = "slow" /\ ~b.ride.alerts

SamePackage == \A b1, b2 \in seen : b1.profile = b2.profile

(* With require_safe_state, no command is written unless the board was     *)
(* stopped, stationary and free of alerts at one and the same instant      *)
(* after the command left the queue ("Never execute a write against cached *)
(* telemetry", bridge.py 189); provided the package, and with it the       *)
(* layout of the realtime frame, was not replaced meanwhile.               *)
IdleBeforeWrite ==
  pc = "write" /\ RequireSafeState /\ SamePackage => \E b \in seen : Idle(b)

(* A BMS command is forwarded to a CAN id that the bus listed after the    *)
(* command left the queue (_effective_bms_can_id).                         *)
BmsTargetOnBus ==
  pc = "write" /\ Action \in BmsActions => \E b \in seen : bmsCanId \in b.nodes

(* An LED command is sent only if, since it left the queue, the package    *)
(* reported the stable lights profile, and then to a node that ran Refloat *)
(* when the safe state was verified on it (set_refloat_leds,               *)
(* _read_with_thor_can_candidates).                                        *)
LedTargetSupported ==
  pc = "write" /\ Action \in RefloatLedControlActions =>
    /\ \E b \in seen : b.profile = "supported"
    /\ RequireSafeState => \E b \in seen : thorCanId \in b.refloats

(* An LED command whose frame was sent and whose answer did not come:      *)
(* set_refloat_leds raises, and the command is reported rejected.          *)
Unanswered(c) ==
  /\ c \in Ids
  /\ requests[c] \in RefloatLedControlActions
  /\ outcome[c] = "rejected"

(* Within one life of the process a command is written only when the       *)
(* cooldown has passed since the last success, and since the last frame,   *)
(* unless that frame was of an LED command whose answer did not come: it is *)
(* reported rejected and starts no cooldown, though the board may have     *)
(* obeyed it (_execute_control_command 236-239, 261 not reached).          *)
CooldownHeld ==
  pc = "write" =>
    /\ sinceOk = Cooldown
    /\ sinceWrite = Cooldown \/ Unanswered(lastWritten)

(* An accepted command is on the queue, running, or has its outcome, and   *)
(* only one of these; only a restart loses one.                            *)
Waiting(c) == \E i \in DOMAIN queue : queue[i] = c

CommandsAccountedFor ==
  \A c \in Ids :
    /\ c \in accepted /\ restarts = 0 =>
         Waiting(c) \/ cmd = c \/ outcome[c] # "none"
    /\ Waiting(c) \/ cmd = c => c \in accepted /\ outcome[c] = "none"
    /\ ~(Waiting(c) /\ cmd = c)
    /\ outcome[c] = "ok" => c \in written

-----------------------------------------------------------------------------
(* Liveness, under FairSpec.                                               *)

(* Every command put on the queue is answered while the process lives: a   *)
(* board that never answers only makes every read fail (poll_cycle).       *)
CommandsAnswered ==
  \A c \in Ids : c \in accepted ~> outcome[c] # "none"

(* "availability is driven by telemetry reachability" (README 228): a board *)
(* that stays away ends up offline, one that stays in reach ends up online. *)
OfflineWhenDown ==
  <>[](board.link = "down") => <>[](availability = "offline")

OnlineWhenUp ==
  <>[](board.link = "up") => <>[](availability = "online")

InReach == {b \in Boards : b.link = "up"}
Stays(b) == <>[](board = b)

(* The periodic forced refresh (poll_cycle 310-311) repairs a cache that was *)
(* filled from another board, another package, or not at all.              *)
CacheFollowsBoard ==
  \A b \in InReach : Stays(b) =>
    <>[](cache.nodes = b.nodes /\ cache.info = b.profile)

(* The CAN role search settles on a node that answers: from some poll on,  *)
(* every snapshot of a reachable board has the sections it answers for,    *)
(* decoded as the board meant them.                                        *)
TelemetryComplete ==
  \A b \in InReach : Stays(b) =>
    <>[](pc = "polled" =>
           snap = [controller |-> IF b.controllers = {} THEN None ELSE b.fault,
                   bms |-> b.bms, realtime |-> b.ride])

(* The LED buttons of a supported board are announced in the end.          *)
LedButtonsAppear ==
  ControlsEnabled /\ LedControlsEnabled =>
    \A b \in {r \in InReach : r.profile = "supported"} :
      Stays(b) => <>ledButtons

-----------------------------------------------------------------------------
(* What the repository's documents say and the code does not do.           *)

(* README 180: "A retained `Command Status` sensor reports                 *)
(* queued/ok/rejected outcomes", and the tests expect ["queued", "ok"]     *)
(* (tests/test_controls.py 225): "queued" is not the last word.            *)
StatusSettles ==
  []<>(retained = None \/ retained.status # "queued")

-----------------------------------------------------------------------------
(* The inductive invariant behind the safety properties.                   *)

StaticSteps == {"firmware", "nodes", "info", "ids"}
PollSteps == {"controller", "bms", "realtime", "lights", "polled"}

(* Control flow: a command is being executed exactly from its dequeuing to *)
(* its outcome, and then nothing else polls.                               *)
FlowOK ==
  /\ cmd # None <=> caller = "control" \/ pc = "cooldown"
  /\ caller = "connect" => pc \in {"connect", "announce"} \union StaticSteps
  /\ pc \in {"connect", "announce"} => caller = "connect"
  /\ pc \in {"sleep", "drain", "cooldown"} => caller = "cycle"
  /\ pc \in {"write", "report"} => caller = "control"
  /\ pc \notin PollSteps => snap = EmptySnapshot
  /\ pc = "controller" => snap = EmptySnapshot
  /\ cmd # None => board \in seen

(* What the ledger knows of each command; the ids beyond the last command  *)
(* sent are untouched.                                                     *)
LedgerOK ==
  /\ \A i, j \in DOMAIN queue : queue[i] = queue[j] => i = j
  /\ \A i \in DOMAIN queue :
       queue[i] \in accepted \ written /\ outcome[queue[i]] = "none"
                                   /\ queue[i] # cmd
  /\ cmd # None => cmd \in accepted /\ outcome[cmd] = "none"
  /\ cmd # None => (cmd \in written <=> pc = "report")
  /\ written \subseteq accepted
  /\ \A c \in Ids : outcome[c] = "ok" => c \in written
  /\ \A c \in accepted :
       c \in DOMAIN requests /\ requests[c] \in AllowedControlActions
  /\ \A c \in Ids : outcome[c] # "none" => c \in DOMAIN requests
  /\ pending # None =>
       /\ pending.id \in DOMAIN requests
       /\ pending.status # "ok"
       /\ pending.status = "rejected" =>
            pending.id \notin accepted /\ outcome[pending.id] = "none"
  /\ \A c \in accepted :
       restarts = 0 => Waiting(c) \/ cmd = c \/ outcome[c] # "none"

(* What the running command has learnt came from the board after the       *)
(* command was dequeued.                                                   *)
FreshOK ==
  caller = "control" =>
    /\ pc \notin {"firmware", "nodes"} => \E b \in seen : cache.nodes = b.nodes
    /\ pc \notin {"firmware", "nodes", "info"} =>
         \E b \in seen : cache.info = b.profile
    /\ pc \notin StaticSteps => \E b \in seen : cache.ids = b.profile
    /\ snap.realtime # None => \E b \in seen :
         /\ snap.realtime.running = b.ride.running
         /\ cache.ids = b.profile =>
              /\ snap.realtime.speed = b.ride.speed
              /\ snap.realtime.alerts = b.ride.alerts
    /\ snap.realtime # None => \E b \in seen : thorCanId \in b.refloats

(* The last frame is no younger than the last success, unless its command  *)
(* has not been reported yet, or was rejected for want of an answer.       *)
CooldownOK ==
  /\ sinceOk = age
  /\ caller = "control" => age = Cooldown
  /\ sinceWrite >= age \/ pc = "report" \/ Unanswered(lastWritten)
=============================================================================
