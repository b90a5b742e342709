--------------------------- MODULE OnewheelBridge ---------------------------
(***************************************************************************)
(* One OnewheelBridge process (bridge.py) with the MQTT callback that      *)
(* feeds it (mqtt_bridge.py), the board behind the VESC TCP bridge, and    *)
(* what the broker retains.                                                *)
(*                                                                         *)
(* Two threads run.  The main thread polls, refreshes the static cache and *)
(* executes the commands; one step of it is one read of the board, one     *)
(* write, or one publication.  The paho thread runs _on_message, which     *)
(* puts a command on the bounded queue and then, in a second step,         *)
(* publishes "queued" or "rejected".  The board changes between any two    *)
(* steps.  The process may be killed and started again at any point.       *)
(***************************************************************************)
EXTENDS Naturals, Sequences, FiniteSets

CONSTANTS
  CanIds,              \* CAN identifiers
  Boards,              \* the conditions the board can be in
  Payloads,            \* the command payloads that are sent
  ThorCanId,           \* vesc.thor_can_id as configured
  BmsCanId,            \* vesc.bms_can_id as configured
  ControlsEnabled,     \* controls.enabled
  LedControlsEnabled,  \* controls.refloat_led_controls_enabled
  RequireSafeState,    \* controls.require_safe_state
  Cooldown,            \* controls.command_cooldown_seconds, in ticks
  StaticRefreshEvery,  \* max(vesc.static_refresh_every_polls, 1)
  QueueSize,           \* MAX_CONTROL_QUEUE_SIZE
  MaxCommands,         \* bound: commands sent in a behaviour
  MaxRestarts,         \* bound: restarts in a behaviour
  None                 \* Python's None

BmsActions == {"allow_charging", "allow_balancing"}
RefloatLedControlActions == {"refloat_leds_on", "refloat_leds_off"}
AllowedControlActions == BmsActions \union RefloatLedControlActions
UnsupportedControlActions == {"disable_charging", "disable_balancing"}
AllPayloads ==
  AllowedControlActions \union UnsupportedControlActions
    \union {"unknown", "oversized"}

Ids == 1 .. MaxCommands
Links == {"up", "flaky", "down"}
Profiles == {"supported", "unsupported"}
Speeds == {"unknown", "slow", "fast"}
Readings == [running : BOOLEAN, speed : Speeds, alerts : BOOLEAN]

(***************************************************************************)
(* A condition of the board: how the TCP link behaves, which CAN nodes     *)
(* answer COMM_PING_CAN, which of them answer COMM_GET_VALUES and which    *)
(* run Refloat, the CAN id the BMS reports, whether a controller fault is  *)
(* active, the Refloat package profile (it fixes the layout of the realtime *)
(* frame too) and what the board is doing.                                 *)
(***************************************************************************)
BoardType ==
  [link : Links, nodes : SUBSET CanIds, controllers : SUBSET CanIds,
   refloats : SUBSET CanIds, bms : CanIds, fault : BOOLEAN,
   profile : Profiles, ride : Readings]

ASSUME IdAssumption ==
  /\ ThorCanId \in CanIds
  /\ BmsCanId \in CanIds
  /\ None \notin CanIds

ASSUME BoardAssumption ==
  /\ Boards \subseteq BoardType
  /\ Boards # {}
  /\ Payloads \subseteq AllPayloads

ASSUME ConfigAssumption ==
  /\ ControlsEnabled \in BOOLEAN
  /\ LedControlsEnabled \in BOOLEAN
  /\ RequireSafeState \in BOOLEAN
  /\ Cooldown \in Nat
  /\ StaticRefreshEvery \in Nat \ {0}
  /\ QueueSize \in Nat \ {0}

ASSUME BoundAssumption ==
  /\ MaxCommands \in Nat
  /\ MaxRestarts \in Nat

ASSUME NoneAssumption ==
  /\ None \notin Ids
  /\ None \notin Profiles
  /\ None \notin Readings
  /\ None \notin BOOLEAN
  /\ None \notin [id : Ids, status : {"queued", "ok", "rejected"}]

VARIABLES
  board,         \* the board, an element of Boards
  pc,            \* what the main thread does next
  caller,        \* who asked for the reads: connect, control or cycle
  cache,         \* _cached_firmware, _can_nodes, _refloat_info, _refloat_ids
  snap,          \* the sections of the TelemetrySnapshot being filled
  tried,         \* CAN candidates that failed in the current read
  thorCanId,     \* config.vesc.thor_can_id
  bmsCanId,      \* config.vesc.bms_can_id
  age,           \* ticks since _last_command_at, up to Cooldown
  pollCount,     \* _poll_count modulo StaticRefreshEvery
  queue,         \* _command_queue
  cmd,           \* the command being executed
  pending,       \* the status _on_message has still to publish
  availability,  \* broker: the retained availability payload
  retained,      \* broker: the retained command status
  ledButtons,    \* broker: LED button discovery configs are retained
  restarts,      \* restarts so far
  requests,      \* history: the payloads sent, a command's id is its index
  accepted,      \* history: commands put on the queue
  written,       \* history: commands whose write frame was sent
  outcome,       \* history: final status published for each command
  sinceOk,       \* history: ticks since "ok" was published, up to Cooldown
  sinceWrite,    \* history: ticks since a write frame was sent, up to Cooldown
  lastWritten,   \* history: the command of that frame, in this life
  seen           \* history: boards since the running command was dequeued

broker == <<availability, retained, ledButtons>>
ledger == <<queue, cmd, accepted, written, outcome>>
clock == <<age, sinceOk, sinceWrite, lastWritten>>
canIds == <<thorCanId, bmsCanId>>
vars == <<board, pc, caller, cache, snap, tried, canIds, clock, pollCount,
          ledger, pending, broker, restarts, requests, seen>>

CacheType ==
  [firmware : BOOLEAN, nodes : SUBSET CanIds,
   info : Profiles \union {None}, ids : Profiles \union {None}]
SnapshotType ==
  [controller : BOOLEAN \union {None}, bms : CanIds \union {None},
   realtime : Readings \union {None}]
Statuses == [id : Ids, status : {"queued", "ok", "rejected"}]

EmptyCache ==
  [firmware |-> FALSE, nodes |-> {}, info |-> None, ids |-> None]
EmptySnapshot == [controller |-> None, bms |-> None, realtime |-> None]

-----------------------------------------------------------------------------
(* The process starts, for the first time or again.                        *)

Init ==
  /\ board \in Boards
  /\ pc = "connect" /\ caller = "connect"
  /\ cache = EmptyCache /\ snap = EmptySnapshot /\ tried = {}
  /\ thorCanId = ThorCanId /\ bmsCanId = BmsCanId
  /\ age = Cooldown
  /\ sinceOk = Cooldown /\ sinceWrite = Cooldown /\ lastWritten = None
  /\ pollCount = 0
  /\ queue = <<>> /\ cmd = None /\ pending = None
  /\ availability = "offline" /\ retained = None /\ ledButtons = FALSE
  /\ restarts = 0
  /\ requests = <<>> /\ accepted = {} /\ written = {}
  /\ outcome = [c \in Ids |-> "none"]
  /\ seen = {}

(* The supervisor restarts the process: what it held in memory is gone,     *)
(* what the broker retains stays; the will has set the board offline.      *)
Restart ==
  /\ restarts < MaxRestarts
  /\ restarts' = restarts + 1
  /\ pc' = "connect" /\ caller' = "connect"
  /\ cache' = EmptyCache /\ snap' = EmptySnapshot /\ tried' = {}
  /\ thorCanId' = ThorCanId /\ bmsCanId' = BmsCanId
  /\ age' = Cooldown
  /\ sinceOk' = Cooldown /\ sinceWrite' = Cooldown /\ lastWritten' = None
  /\ pollCount' = 0
  /\ queue' = <<>> /\ cmd' = None /\ pending' = None /\ seen' = {}
  /\ availability' = "offline"
  /\ UNCHANGED <<board, retained, ledButtons, requests, accepted, written,
                 outcome>>

-----------------------------------------------------------------------------
(* Control flow shared by the main thread's steps.                         *)

(* publish_command_status: the last message published stays retained.      *)
PublishStatus(c, status) ==
  /\ retained' = [id |-> c, status |-> status]
  /\ outcome' = IF status = "queued" THEN outcome
                ELSE [outcome EXCEPT ![c] = status]

Continue(next) ==
  /\ pc' = next
  /\ tried' = {}
  /\ UNCHANGED <<caller, cmd, seen, outcome, retained>>

(* The running command ends with this status, and the drain goes on.       *)
EndCommand(status) ==
  /\ PublishStatus(cmd, status)
  /\ cmd' = None
  /\ seen' = {}
  /\ snap' = EmptySnapshot
  /\ tried' = {}
  /\ caller' = "cycle"
  /\ pc' = "drain"

(* Mutant: the exception is swallowed without a status.                    *)
RejectSilently ==
  /\ cmd' = None
  /\ seen' = {}
  /\ snap' = EmptySnapshot
  /\ tried' = {}
  /\ caller' = "cycle"
  /\ pc' = "drain"
  /\ UNCHANGED <<outcome, retained>>

Reject == EndCommand("rejected")

(* Mutant: the refresh before a control command is best effort too.        *)
StaticSkipped(next) ==
  /\ Continue(IF caller = "connect" THEN "announce" ELSE next)
  /\ UNCHANGED snap

(* An item of refresh_static_info raised: the refresh of a poll cycle is   *)
(* best effort and goes to the next item; connect() swallows the exception *)
(* and announces; a control command is rejected.                           *)
StaticFailed(next) ==
  \/ caller = "cycle" /\ Continue(next) /\ UNCHANGED snap
  \/ caller = "connect" /\ Continue("announce") /\ UNCHANGED snap
  \/ caller = "control" /\ Reject

Responds == board.link # "down"
CanFail == board.link # "up"

(* Mutant: only the configured id is asked.                                *)
ConfiguredCandidate == {thorCanId}

(* _thor_can_candidates: the resolved id first, then the cached nodes.     *)
Candidates == {thorCanId} \union cache.nodes
NextCandidates ==
  IF thorCanId \notin tried THEN {thorCanId} ELSE Candidates \ tried

(* Mutant: the role found is not written back to the configuration.        *)
CandidateAnswersUnresolved(asked) ==
  /\ Responds
  /\ NextCandidates \intersect asked # {}
  /\ UNCHANGED thorCanId

(* _read_with_thor_can_candidates when one of the asked nodes answers.     *)
CandidateAnswers(asked) ==
  \E c \in NextCandidates \intersect asked :
    /\ Responds
    /\ thorCanId' = c

CandidateFails(asked) ==
  \E c \in NextCandidates :
    /\ c \in asked => CanFail
    /\ tried \union {c} # Candidates
    /\ tried' = tried \union {c}

CandidatesExhausted(asked) ==
  \E c \in NextCandidates :
    /\ c \in asked => CanFail
    /\ tried \union {c} = Candidates

TryNextCandidate(asked) ==
  /\ CandidateFails(asked)
  /\ UNCHANGED <<pc, caller, cmd, seen, outcome, retained, snap, cache,
                 thorCanId>>

(* What a read of the board by the main thread leaves alone.               *)
ReadFrame ==
  UNCHANGED <<board, bmsCanId, clock, pollCount, queue, pending, availability,
              ledButtons, restarts, requests, accepted, written>>

-----------------------------------------------------------------------------
(* connect() and refresh_static_info()                                     *)

Connect ==
  /\ pc = "connect"
  /\ availability' = "offline"
  /\ Continue("firmware")
  /\ UNCHANGED <<board, cache, snap, canIds, clock, pollCount, queue, pending,
                 ledButtons, restarts, requests, accepted, written>>

RefreshFirmware ==
  /\ pc = "firmware"
  /\ \/ /\ Responds
        /\ cache' = [cache EXCEPT !.firmware = TRUE]
        /\ Continue("nodes")
        /\ UNCHANGED snap
     \/ /\ CanFail
        /\ StaticFailed("nodes")
        /\ UNCHANGED cache
  /\ UNCHANGED thorCanId
  /\ ReadFrame

RefreshCanNodes ==
  /\ pc = "nodes"
  /\ \/ /\ Responds
        /\ cache' = [cache EXCEPT !.nodes = board.nodes]
        /\ Continue("info")
        /\ UNCHANGED snap
     \/ /\ CanFail
        /\ StaticFailed("info")
        /\ UNCHANGED cache
  /\ UNCHANGED thorCanId
  /\ ReadFrame

RefreshRefloatInfo ==
  /\ pc = "info"
  /\ \/ /\ CandidateAnswers(board.refloats)
        /\ cache' = [cache EXCEPT !.info = board.profile]
        /\ Continue("ids")
        /\ UNCHANGED snap
     \/ TryNextCandidate(board.refloats)
     \/ /\ CandidatesExhausted(board.refloats)
        /\ StaticFailed("ids")
        /\ UNCHANGED <<cache, thorCanId>>
  /\ ReadFrame

(* The id list is that of the package profile the board runs.              *)
RefreshRefloatIds ==
  /\ pc = "ids"
  /\ \/ /\ CandidateAnswers(board.refloats)
        /\ cache' = [cache EXCEPT !.ids = board.profile]
        /\ Continue(IF caller = "connect" THEN "announce" ELSE "controller")
        /\ UNCHANGED snap
     \/ TryNextCandidate(board.refloats)
     \/ /\ CandidatesExhausted(board.refloats)
        /\ StaticFailed("controller")
        /\ UNCHANGED <<cache, thorCanId>>
  /\ ReadFrame

(* build_discovery_payloads adds the LED buttons for a supported profile;  *)
(* nothing ever publishes an empty payload to take them back.              *)
LedButtonsIncluded ==
  ControlsEnabled /\ LedControlsEnabled /\ cache.info = "supported"

(* Mutant: the discovery payloads are published by connect() only.         *)
PublishDiscoveryOnce ==
  ledButtons' = (ledButtons \/ (caller = "connect" /\ LedButtonsIncluded))

PublishDiscovery == ledButtons' = (ledButtons \/ LedButtonsIncluded)

Announce ==
  /\ pc = "announce"
  /\ PublishDiscovery
  /\ pc' = "sleep"
  /\ caller' = "cycle"
  /\ UNCHANGED <<board, cache, snap, tried, canIds, clock, pollCount, ledger,
                 pending, availability, retained, restarts, requests, seen>>

-----------------------------------------------------------------------------
(* poll_once()                                                             *)

PollController ==
  /\ pc = "controller"
  /\ \/ /\ CandidateAnswers(board.controllers)
        /\ snap' = [snap EXCEPT !.controller = board.fault]
        /\ Continue("bms")
        /\ UNCHANGED cache
     \/ TryNextCandidate(board.controllers)
     \/ /\ CandidatesExhausted(board.controllers)
        /\ Continue("bms")
        /\ UNCHANGED <<snap, cache, thorCanId>>
  /\ ReadFrame

PollBms ==
  /\ pc = "bms"
  /\ \/ Responds /\ snap' = [snap EXCEPT !.bms = board.bms]
     \/ CanFail /\ UNCHANGED snap
  /\ Continue("realtime")
  /\ UNCHANGED <<cache, thorCanId>>
  /\ ReadFrame

(* The realtime frame as the cached id list decodes it: the state is at a  *)
(* fixed offset; the speed needs the list, and both the speed and the      *)
(* alerts behind it are noise when the list is that of another package.    *)
Decoded(reading) ==
  /\ reading.running = board.ride.running
  /\ cache.ids = None => reading.speed = "unknown"
  /\ cache.ids = board.profile =>
       reading.speed = board.ride.speed /\ reading.alerts = board.ride.alerts

(* A frame shorter than another package's list makes the decoder raise.    *)
SureRealtimeNodes ==
  IF cache.ids \in {None, board.profile} THEN board.refloats ELSE {}

LightsPolled == LedControlsEnabled /\ cache.info = "supported"

PollRealtime ==
  /\ pc = "realtime"
  /\ \/ /\ CandidateAnswers(board.refloats)
        /\ \E reading \in Readings :
             /\ Decoded(reading)
             /\ snap' = [snap EXCEPT !.realtime = reading]
        /\ Continue(IF LightsPolled THEN "lights" ELSE "polled")
        /\ UNCHANGED cache
     \/ TryNextCandidate(SureRealtimeNodes)
     \/ /\ CandidatesExhausted(SureRealtimeNodes)
        /\ Continue(IF LightsPolled THEN "lights" ELSE "polled")
        /\ UNCHANGED <<snap, cache, thorCanId>>
  /\ ReadFrame

LightNodes == IF board.profile = "supported" THEN board.refloats ELSE {}

PollLights ==
  /\ pc = "lights"
  /\ \/ CandidateAnswers(LightNodes) /\ Continue("polled")
     \/ TryNextCandidate(LightNodes)
     \/ CandidatesExhausted(LightNodes) /\ Continue("polled") /\ UNCHANGED thorCanId
  /\ UNCHANGED <<snap, cache>>
  /\ ReadFrame

(* Mutants: a poll counts whatever it read, or only when it read it all.   *)
ConnectedAnyway == TRUE
ConnectedCompletely ==
  snap.controller # None /\ snap.bms # None /\ snap.realtime # None

Connected == snap # EmptySnapshot

-----------------------------------------------------------------------------
(* poll_cycle()                                                            *)

(* Mutant: the static data is refreshed by connect() only.                 *)
RefreshNever == FALSE

RefreshDue == pollCount = 0

BeginCycle ==
  /\ pc = "sleep"
  /\ pollCount' = (pollCount + 1) % StaticRefreshEvery
  /\ Continue("drain")
  /\ UNCHANGED <<board, cache, snap, canIds, clock, queue, pending,
                 availability, ledButtons, restarts, requests, accepted,
                 written>>

EndDrain ==
  /\ pc = "drain"
  /\ queue = <<>>
  /\ Continue(IF RefreshDue THEN "firmware" ELSE "controller")
  /\ UNCHANGED <<board, cache, snap, canIds, clock, pollCount, queue, pending,
                 availability, ledButtons, restarts, requests, accepted,
                 written>>

PublishSnapshot ==
  /\ pc = "polled"
  /\ caller = "cycle"
  /\ Connected
  /\ IF RefreshDue THEN PublishDiscovery ELSE UNCHANGED ledButtons
  /\ availability' = "online"
  /\ snap' = EmptySnapshot
  /\ Continue("sleep")
  /\ UNCHANGED <<board, cache, canIds, clock, pollCount, queue, pending,
                 restarts, requests, accepted, written>>

CycleFailed ==
  /\ pc = "polled"
  /\ caller = "cycle"
  /\ ~Connected
  /\ availability' = "offline"
  /\ Continue("sleep")
  /\ UNCHANGED <<board, cache, snap, canIds, clock, pollCount, queue, pending,
                 ledButtons, restarts, requests, accepted, written>>

-----------------------------------------------------------------------------
(* process_control_commands() and _execute_control_command()               *)

(* Mutant: the newest command is taken first.                              *)
NewestCommand ==
  cmd' = queue[Len(queue)] /\ queue' = SubSeq(queue, 1, Len(queue) - 1)

GetCommand == cmd' = Head(queue) /\ queue' = Tail(queue)

Dequeue ==
  /\ pc = "drain"
  /\ queue # <<>>
  /\ GetCommand
  /\ seen' = {board}
  /\ pc' = "cooldown"
  /\ UNCHANGED <<board, caller, cache, snap, tried, canIds, clock, pollCount,
                 accepted, written, outcome, pending, broker, restarts,
                 requests>>

(* A command that passes starts _snapshot_for_control: a forced refresh    *)
(* that is not best effort, then a poll.                                   *)
CheckCooldown ==
  /\ pc = "cooldown"
  /\ \/ age < Cooldown /\ Reject
     \/ /\ age >= Cooldown
        /\ caller' = "control"
        /\ pc' = "firmware"
        /\ UNCHANGED <<cmd, seen, snap, tried, outcome, retained>>
  /\ UNCHANGED <<cache, thorCanId>>
  /\ ReadFrame

Action == requests[cmd]

(* Mutant: realtime telemetry that could not be read is not held against   *)
(* the command.                                                            *)
ValidatedIfRead ==
  /\ Connected
  /\ RequireSafeState /\ snap.realtime # None =>
       /\ ~snap.realtime.running
       /\ snap.realtime.speed = "slow"
       /\ snap.controller # TRUE
       /\ ~snap.realtime.alerts

(* _validate_control_snapshot *)
Validated ==
  /\ Connected
  /\ RequireSafeState =>
       /\ Action \in BmsActions => snap.bms # None
       /\ snap.realtime # None
       /\ Action \in RefloatLedControlActions => cache.info # None
       /\ ~snap.realtime.running
       /\ snap.realtime.speed = "slow"
       /\ snap.controller # TRUE
       /\ ~snap.realtime.alerts

(* _effective_bms_can_id: the id the BMS reported, else the resolved one.  *)
EffectiveBms == IF snap.bms # None THEN snap.bms ELSE bmsCanId

(* Mutant: the package profile is not checked before an LED write.         *)
TargetedBmsOnly == Action \in BmsActions => EffectiveBms \in cache.nodes

Targeted ==
  /\ Action \in BmsActions => EffectiveBms \in cache.nodes
  /\ Action \in RefloatLedControlActions => cache.info = "supported"

ValidateControl ==
  /\ pc = "polled"
  /\ caller = "control"
  /\ \/ /\ Validated
        /\ Targeted
        /\ bmsCanId' = IF Action \in BmsActions THEN EffectiveBms ELSE bmsCanId
        /\ Continue("write")
        /\ snap' = EmptySnapshot
     \/ /\ ~(Validated /\ Targeted)
        /\ Reject
        /\ UNCHANGED bmsCanId
  /\ UNCHANGED <<board, cache, thorCanId, clock, pollCount, queue, pending,
                 availability, ledButtons, restarts, requests, accepted,
                 written>>

(* An LED write waits for the answer of its node; a BMS write is complete  *)
(* when the frame is sent, so only an LED frame is sent and then rejected. *)
WriteAnswered == Action \in BmsActions \/ thorCanId \in LightNodes

FrameSent ==
  /\ Responds
  /\ written' = written \union {cmd}
  /\ sinceWrite' = 0
  /\ lastWritten' = cmd

SendWrite ==
  /\ pc = "write"
  /\ \/ /\ FrameSent
        /\ WriteAnswered
        /\ Continue("report")
        /\ UNCHANGED snap
     \/ /\ FrameSent
        /\ Action \in RefloatLedControlActions
        /\ CanFail \/ ~WriteAnswered
        /\ Reject
     \/ /\ CanFail
        /\ Reject
        /\ UNCHANGED <<written, sinceWrite, lastWritten>>
  /\ UNCHANGED <<board, cache, canIds, age, sinceOk, pollCount, queue, pending,
                 availability, ledButtons, restarts, requests, accepted>>

(* Mutant: _last_command_at is not set.                                    *)
ForgetCooldown == UNCHANGED age

StartCooldown == age' = 0

ReportOk ==
  /\ pc = "report"
  /\ StartCooldown
  /\ sinceOk' = 0
  /\ EndCommand("ok")
  /\ UNCHANGED <<board, cache, canIds, pollCount, queue, pending,
                 availability, ledButtons, restarts, requests, accepted,
                 written, sinceWrite, lastWritten>>

-----------------------------------------------------------------------------
(* The paho thread: _on_message and enqueue_control_command.               *)

Admitted(action) ==
  /\ action \in AllowedControlActions
  /\ action \in RefloatLedControlActions => LedControlsEnabled

(* Mutant: one command too many fits.                                      *)
QueueRoomOffByOne == Len(queue) <= QueueSize

QueueRoom == Len(queue) < QueueSize

EnqueueControlCommand(c, action) ==
  \/ /\ ~Admitted(action)
     /\ PublishStatus(c, "rejected")
     /\ UNCHANGED <<queue, accepted, pending>>
  \/ /\ Admitted(action)
     /\ QueueRoom
     /\ queue' = Append(queue, c)
     /\ accepted' = accepted \union {c}
     /\ pending' = [id |-> c, status |-> "queued"]
     /\ UNCHANGED <<outcome, retained>>
  \/ /\ Admitted(action)
     /\ ~QueueRoom
     /\ pending' = [id |-> c, status |-> "rejected"]
     /\ UNCHANGED <<queue, accepted, outcome, retained>>

(* Mutant: retained messages are taken for new commands.                   *)
IgnoredOversized(action, retain) == action = "oversized"

Ignored(action, retain) == retain \/ action = "oversized"

(* The subscription is made only with controls enabled, on connection.     *)
OnMessage(c, action, retain) ==
  /\ ControlsEnabled
  /\ pc # "connect"
  /\ pending = None
  /\ IF Ignored(action, retain)
       THEN UNCHANGED <<queue, accepted, pending, outcome, retained>>
       ELSE EnqueueControlCommand(c, action)
  /\ UNCHANGED <<board, pc, caller, cache, snap, tried, canIds, clock,
                 pollCount, cmd, written, availability, ledButtons, restarts,
                 seen>>

(* A new command is published, or the broker hands out again one that was  *)
(* published with the retain flag.                                         *)
Press(action) ==
  /\ Len(requests) < MaxCommands
  /\ requests' = Append(requests, action)
  /\ OnMessage(Len(requests) + 1, action, FALSE)

Redeliver(c) ==
  /\ c \in DOMAIN requests
  /\ OnMessage(c, requests[c], TRUE)
  /\ UNCHANGED requests

PublishPending ==
  /\ pending # None
  /\ PublishStatus(pending.id, pending.status)
  /\ pending' = None
  /\ UNCHANGED <<board, pc, caller, cache, snap, tried, canIds, clock,
                 pollCount, queue, cmd, accepted, written, availability,
                 ledButtons, restarts, requests, seen>>

-----------------------------------------------------------------------------
(* The environment: time and the board.                                    *)

Tick ==
  /\ age < Cooldown \/ sinceOk < Cooldown \/ sinceWrite < Cooldown
  /\ age' = IF age < Cooldown THEN age + 1 ELSE age
  /\ sinceOk' = IF sinceOk < Cooldown THEN sinceOk + 1 ELSE sinceOk
  /\ sinceWrite' = IF sinceWrite < Cooldown THEN sinceWrite + 1 ELSE sinceWrite
  /\ UNCHANGED <<lastWritten, board, pc, caller, cache, snap, tried, canIds, pollCount,
                 ledger, pending, broker, restarts, requests, seen>>

ChangeBoard ==
  /\ board' \in Boards \ {board}
  /\ seen' = IF cmd = None THEN {} ELSE seen \union {board'}
  /\ UNCHANGED <<pc, caller, cache, snap, tried, canIds, clock, pollCount,
                 ledger, pending, broker, restarts, requests>>

MainThread ==
  \/ Connect \/ RefreshFirmware \/ RefreshCanNodes \/ RefreshRefloatInfo
  \/ RefreshRefloatIds \/ Announce
  \/ PollController \/ PollBms \/ PollRealtime \/ PollLights
  \/ BeginCycle \/ EndDrain \/ PublishSnapshot \/ CycleFailed
  \/ Dequeue \/ CheckCooldown \/ ValidateControl \/ SendWrite \/ ReportOk

Next ==
  \/ MainThread
  \/ \E action \in Payloads : Press(action)
  \/ \E c \in Ids : Redeliver(c)
  \/ PublishPending
  \/ Tick
  \/ ChangeBoard
  \/ Restart

Spec == Init /\ [][Next]_vars

(* Both threads keep running; the board, time and restarts owe nothing.    *)
FairSpec == Spec /\ WF_vars(MainThread) /\ WF_vars(PublishPending)
=============================================================================
