# onewheel-ha-bridge: specifications and proofs

TLA+ modules for the Home Assistant bridge of a VESC/Refloat board
(`src/src/onewheel_ha_bridge/`), the TLC runs that check them, and the TLAPS proofs
about them. All definitions are translated from the Python source; file and line
of each are in `PROJECT.json` ("map"). Line numbers below are those of the
files in `src/src/onewheel_ha_bridge/`.

## 1. The system

One process polls one board (or, with discovery enabled, several) over TCP and
publishes what it reads to an MQTT broker. With `controls.enabled` Home
Assistant buttons may ask for one of four guarded writes.

| component | file | state | operations | modelled by |
|---|---|---|---|---|
| bridge loop | `bridge.py` 84-194, 296-329 | static cache (firmware, CAN nodes, Refloat info and ids), resolved CAN ids, poll count, snapshot of the poll | `connect`, `refresh_static_info`, `poll_once`, `poll_cycle`, role search | `OnewheelBridge` |
| guarded controls | `bridge.py` 57-82, 196-275 | command queue (16), time of the last success | `enqueue_control_command`, `process_control_commands`, validation, write | `OnewheelBridge`, `CommandLedger` |
| MQTT adapter | `mqtt_bridge.py` | paho client, connected flag | `_on_connect`, `_on_disconnect`, `_on_message`, publications, `connect`, `disconnect` | session in `MqttSession`; command callback and contents in `OnewheelBridge` |
| VESC client and codec | `protocol.py` | none between calls: one socket per attempt | `query`, `send`, `_retry_decode`, decoders | attempts in `VescLink`, what a call promises in `VescCall`, the realtime decoder in `RealtimeDecode`, outcome of a call in `OnewheelBridge` |
| telemetry model | `models.py` | none | `connected`, `alerts_active`, `to_state_dict` | the parts the control path reads (`OnewheelBridge`, `RealtimeDecode`) |
| discovery payloads | `discovery.py` | none (the broker retains them) | `build_discovery_payloads` | the LED buttons |
| fleet | `multibridge.py` | registered boards, time of the last scan | `connect`, `scan_once`, `_add_board`, `poll_once`, `run` | `MultiBoard`, what its devices promise in `DeviceRegistry` |
| scanner | `scanner.py` | none | host list, probes in a thread pool | `Scanner`, what a call promises in `ScanCall`; its result in `MultiBoard` |
| configuration | `config.py` | none | file and environment merge, `for_discovered_board` | CONSTANTS; device ids in `MultiBoard` |
| entry point | `main.py` | none | `main` | end and restart in `MqttSession` and `OnewheelBridge` |

How they interact. Two threads share a bridge: the *main thread* runs
`poll_cycle` and, inside it, the commands; the *paho thread* runs
`_on_message`, which puts a command on the bounded queue and then publishes its
status. They share only the queue and the paho client. The board is reached by
blocking calls that may fail at any time, and it changes between two calls. The
broker keeps the last retained payload of every topic; the will sets the
availability to offline when the process dies. A fleet is polled by one main
thread, board after board, and scanned by a pool of threads.

What is hard: the two threads publish to the same retained topic; telemetry
that decides about a write is collected in half a dozen calls; the static cache
is refreshed best effort in one place and all-or-nothing in another; the CAN
role search rewrites the configuration as it reads; commands can arrive again,
arrive late, find the queue full, or be cut off by a restart; nothing is
persisted. PROJECT.json ("hazards") lists these with their lines and the
properties that cover them.

What makes it correct, by component:

- controls: a command is executed at most once, in order, with at most one
  outcome, only on fresh evidence that the board is idle, only to a target that
  is really there, and not within the cooldown of the last success; every
  accepted command is answered while the process lives;
- bridge loop: a board that stays in reach is online with complete telemetry
  and a cache that matches it; one that stays away is offline;
- VESC client: an answer belongs to its call (not always, see section 5), a call
  ends, fails only when every attempt is used up, and writes no more often than
  its retries;
- MQTT adapter: retained and oversized messages are never commands; the
  availability settles on the last poll whatever the connection does, and on
  offline when the process is gone; the last retained status is the last thing
  that happened (it is not, see section 5);
- discovery: LED buttons are shown when, and only when, they can work;
- fleet and scanner: one device per physical board, every board that answers is
  registered in the end, one bad board or network never stops the others, and
  a scan never probes more than its caps.

## 2. The modules

| module | contents |
|---|---|
| `OnewheelBridge` | the detailed model: CONSTANTS with named assumptions, variables, one action per read, write or publication, `Spec` and `FairSpec` |
| `CommandLedger` | the abstract promise about commands, six variables and seven actions |
| `OnewheelBridgeProperties` | type invariant, safety, liveness, the refinement mapping, and the parts of the inductive invariants |
| `MCOnewheelBridge` | the boards TLC uses |
| `OnewheelBridge_proofs` | the theorems about it |
| `MultiBoard` | the fleet: registration, scans, polls in turn, a network in which boards come, go and move |
| `DeviceRegistry` | the abstract registry: devices that are never renamed or removed and show one board for good |
| `MultiBoardProperties` | the fleet's properties, the mapping to `DeviceRegistry`, conditions on the network, and the inductive invariant |
| `MCMultiBoard` | the networks TLC uses |
| `MultiBoard_proofs` | the theorems about it |
| `VescCall` | the abstract call: what one call of the client promises its caller |
| `VescLink` | the calls of the client, attempt by attempt, over a TCP bridge that keeps, loses and delays requests |
| `VescLinkProperties`, `MCVescLink`, `VescLink_proofs` | its properties and the mapping to `VescCall`, TLC's calls, the theorems |
| `MqttSession` | connection, will, unacknowledged publications, shutdown and restart of one process |
| `MqttSessionProperties`, `MCMqttSession`, `MqttSession_proofs` | its properties, TLC's module, the theorems |
| `ScanCall` | the abstract scan: what one call of the scanner promises the fleet |
| `Scanner` | one scan: host list, caps, pool of probes, result |
| `ScannerProperties`, `MCScanner`, `Scanner_proofs` | its properties with the reference host list and the mapping to `ScanCall`, TLC's sections and networks, the theorems |
| `RealtimeDecode` | the realtime frame, read with the id list that is cached |
| `RealtimeDecodeProperties`, `MCRealtimeDecode`, `RealtimeDecode_proofs` | its properties, TLC's packages, the theorems |

Definitions whose comment says *Mutant* change the definition after them the
way a plausible bug would; no specification uses them.

### From code to state

- `board` is the environment: the link (`up` always answers, `down` never,
  `flaky` may do either at each call), which CAN ids the bus lists, which of
  them answer controller reads and Refloat reads, the id the BMS reports, the
  package profile (`refloat_lights_control_supported` or not), a fault, and
  what the board is doing. `ChangeBoard` may replace it by any other board of
  `Boards` between two steps.
- `pc` and `caller` are the main thread's place in the code. `caller` tells the
  three users of `refresh_static_info`/`poll_once` apart, because they treat a
  failure differently: `connect()` gives up and announces, a control command is
  rejected, a poll cycle goes on.
- `cache` holds `_cached_*`; `snap` the sections of the `TelemetrySnapshot`
  being filled; `tried` the candidates of `_read_with_thor_can_candidates`
  that failed; `thorCanId`, `bmsCanId` the configuration fields the code
  rewrites.
- A realtime reading is decoded with the cached id list (`Decoded`): with the
  right list it is what the board meant; with no list the speed is unknown; with
  the list of another package the speed and what comes behind it are arbitrary,
  or the decoder raises.
- `queue`, `cmd`, `pending` are the command queue, the command being executed
  and the status the callback has still to publish. A command is its index in
  `requests`.
- `availability`, `retained`, `ledButtons` are what the broker retains.
- `accepted`, `written`, `outcome`, `sinceOk`, `sinceWrite`, `lastWritten`, `seen`
  are history variables used by the properties only (`sinceWrite` and
  `lastWritten`: how long ago the last write frame was sent, and for which
  command; `seen`: the boards there have been since the running command was
  dequeued).

### From code to actions

`Connect`, the four `Refresh...` actions and `Announce` are `connect()`; the four
`Refresh...` and `PollController`, `PollBms`, `PollRealtime`, `PollLights` are
`refresh_static_info` and `poll_once`, whoever calls them; `BeginCycle`,
`EndDrain`, `PublishSnapshot`, `CycleFailed` are `poll_cycle`; `Dequeue`,
`CheckCooldown`, `ValidateControl`, `SendWrite`, `ReportOk` are
`process_control_commands` and `_execute_control_command`; a rejection is part of
the action that raises. `Press`, `Redeliver` and `PublishPending` are the paho
thread. All reads of one call, with their retries, are one step: the board may
change between calls but answers one call in one condition. A read of the role
search is one step per candidate.

### The fleet

`MultiBoard` is a module of its own, not a composition of bridges: one step of
it (`PollBoard`) is a whole `poll_cycle` of one board, of which it keeps what the
registry and the broker see: the cached firmware, the announcement, the
availability and whose telemetry was published.

- `place` says which board answers at which endpoint (a host and port);
  `MoveBoards` replaces it by another element of `Placements` between any two
  steps. An endpoint of `Lossy` may fail although its board is there. A board
  of `Anonymous` reports no uuid, and its identity is its endpoint.
- `boards` and `runtime` are `_boards`: insertion order and content. `session` is
  the paho client's: `up`; `late`, when `connect()` timed out and paho's thread
  goes on trying (`SessionEstablished`); `refused`, when paho's own connect
  raised and its thread was never started.
- `toProbe`, `answers` and `known` belong to the scan that runs: `Probe` ends one
  probe of the pool, in any order; `EndProbes` keeps one answer per identity,
  whichever came first, and reads `_known_identity_keys`; `SkipAnswer` and
  `AddBoard` are the loop of `scan_once`. The answers may be out of date when
  they are used.
- `Wake` decides whether a scan is due. `ScanEvery` bounds the rounds of polls
  between two scans; whether the interval has passed is left open.

`Scanned` is the result of `iter_discovery_hosts` and the port list. A failed
connect of the configured board ends the process, so the behaviours start with
its success; the second look at the scan interval right after the first scan
(88-93, reached from `run`) is left out, since it repeats a scan with nothing
in between.

### The client and the link

`VescLink` opens what is one step in the core: `Begin` is the call, `attempt` and
`round` are the loop counters of `query`/`send` and `_retry_decode`. `SendFrame` and
`SendFails` are connect and sendall, `ReadFrame` a frame that arrives,
`ReadUnreadable` one with the right command bytes whose contents do not decode,
`ReadFails` everything `_read_frame` raises. `AttemptFailed` and
`RoundFailed` are the two except branches. A socket is closed at the end of
every attempt (`CloseSocket`).

The TCP bridge and the board are external: `pending` are requests it still holds,
`stream` answers on the open socket. `Serve` hands the oldest answer to
whatever socket is open, `Lose` drops one. This is how the docstring of
`_retry_decode` describes the bridge; the code says nothing more about it. An
answer does not name the CAN node, so `Accepts` compares the kind only, and a
query for the lights and an LED write are answered alike (`Answers`).

### The session

`MqttSession` has the same process as the core, seen from the broker. `link` is the
connection as paho sees it, `watch` as the broker does: after `Break` the broker
may take the session for live until it notices, or until the same client id
connects again (`Accept`), and publishes the will then. `out` are the QoS 1
publications not acknowledged, of which the first `Window` may be on the wire;
`done` counts those the broker has. `Hello`, `Announce`, `Poll` are the
publications of `connect` and `poll_cycle`; `BeginClose`, `EndWait` and
`Goodbye` are `disconnect`, and `Kill` any end without it. `loop_stop`, which joins
paho's thread, is taken to be instantaneous, so `ShutdownEnds` speaks of the wait for
the last publication only, and not of the timeout of `connect`. The board is reduced
to `reach`: whether the next poll succeeds.

### The scan

`AddHost` and `NextNetwork` build the list of `iter_discovery_hosts` host by host,
`EndHosts` cuts the tasks; `StartProbe`, `EndProbe` and `Collect` are the workers
and `as_completed`, in any order; `Finish` sorts. The key of an endpoint
is a text, and `KeyOrder` is the place of that text among all: port 10 comes before
port 7. `Home` says which board is behind a host and port, where there is one; a
probe may miss it. `InOrder` is a set put in an order; it stands for the
comprehension over the ports, which keeps their order, and for the sort.

### The realtime frame

`ReadHeader` takes any frame the board may send with the package it runs now;
`ReadRealtime`, `ReadRuntime`, `ReadCharging`, `ReadAlerts` are the sections of
`get_refloat_realtime_from_payload` with the list in `ids`; `Raise` is
`Buffer.require`. `Reflash` changes the package without telling the bridge. A
value is its two bytes. `SpeedClass` is the comparison of bridge.py 228: half
floats are ordered by their bits, so that scaling, rounding and the limit are
one threshold, `FastAbove`; for the default limit of 0.5 mph it is 14961
(0.80518 km/h, which is rounded to 0.500 mph).

### How the modules fit together

- A read or write of the core ends as `VescCall` lets a call end: `WriteAnswered`
  and the rejections of `SendWrite` are its *ok*, *sent* and *failed*. A BMS
  write reported failed was never on the wire; an LED write reported failed
  may have been obeyed up to three times, which the core allows too.
  `VescLink` is shown to implement `VescCall` (`CallSpec`, by TLC and by proof).
- The core takes an answered read to come from the board as it is at that moment.
  `StaleOnlyIfKept` says under which condition the client delivers that: no
  request of the same command was left in the TCP bridge. `VescLinkStale` shows that
  the client cannot tell when there was.
- `Decoded` and `SureRealtimeNodes` of the core are `ReadAsTheCoreAssumes`.
- `EndProbes` of `MultiBoard` keeps one answer of each identity, which is what
  `ScanCall` lets a scan return. `Scanner` is shown to implement `ScanCall` (by TLC
  and by proof), and `FleetTakesScanCall` proves that the fleet's probes and their
  end are steps of it, so that the two modules agree on what a scan is. A scan that
  raises has probed nothing. `Scanned` stands for the hosts of `HostsAsListed`.
- What the fleet in turn gives Home Assistant is `DeviceRegistry` (`RegistrySpec`,
  by TLC and by proof).
- The core's broker is always up; `AvailabilitySettles`, `RetainedIsLast` and
  `CommandsReachable` say what becomes of its publications and its
  subscription when it is not.

These are agreements between separate modules, not one product: a product of
the core with the link and the session has a state space out of TLC's reach.

### What the model leaves out, and why

- `_discovery_published` is set by `connect()` before the loop starts and is
  never cleared, so in a single-board process it is always true in `poll_cycle`;
  it matters in a fleet, where `connect()` may fail: `announced` in `MultiBoard`.
- `_last_snapshot` and `received_at` are written and never read.
- `set_bms_balance_override` and `command.action` of the unreachable last branch
  have no caller.
- In `OnewheelBridge` the session with the broker is always up, and publications
  are delivered in the order they were made. A restart happens at any step.
- Texts of statuses, the numeric fields of the telemetry, the state and raw
  topics: no property is about them yet.
- `ControlsEnabled` = FALSE means that no message reaches the queue: the
  subscription is not made; `enqueue_control_command`'s own test of it (68-71)
  cannot be reached then.

## 3. Model checking

Bounds: `MaxCommands` bounds the messages of a behaviour, `MaxRestarts` the
restarts, `Boards` the conditions of the board; `QueueSize` stands for
`MAX_CONTROL_QUEUE_SIZE` = 16. Three commands with a queue of two let one wait
behind another that changes the cache, the CAN ids and the cooldown it meets, and
let one come to a queue that is full; the kinds of commands, which differ in
their checks and targets only, are varied in `OnewheelBridgeSwap`.
`StaticRefreshEvery` = 2 gives cycles with and without refresh. CAN 1 is the Thor
and CAN 2 the BMS, the configuration may have them wrong. Symmetry is not used:
the CAN ids have roles.

| run | question | instance |
|---|---|---|
| `OnewheelBridgeCommands` | `TypeOK`, `IdleBeforeWrite`, `LedTargetSupported`: may a command be written on evidence that is incomplete or old? `CommandsAccountedFor`, `CooldownHeld`, `LedgerSpec`: is one lost, repeated, reordered, or written too soon after a success or another frame? | parked board that may ride off with a flaky link, wrong ids, 3 LED commands, queue of 2, cooldown of 2 ticks, redeliveries, 1 restart |
| `OnewheelBridgeSwap` | `BmsTargetOnBus`, `LedTargetSupported`: may a write go to a target that was never there? | package downgrade, BMS moved to CAN 3, `require_safe_state` off, wrong ids |
| `OnewheelBridgeLive` | `CommandsAnswered`, `OfflineWhenDown`, `OnlineWhenUp`; `CacheFollowsBoard`, `TelemetryComplete`, `LedButtonsAppear`: is the cache repaired in the end? | board without controller answers, board with other CAN roles and package, board off; refresh at every second poll, 1 command |
| `OnewheelBridgeStatus` | a divergence of section 5 | one board, 2 commands |
| `VescLink` | `TypeOK`, `FramesBounded`, `FailsOnlyWhenExhausted`, `StaleOnlyIfKept`, `CallsReturn`, `CallSpec` | a direct read, the lights query, the LED write and a BMS write in any order; 2 retries, 3 decode attempts, 3 requests in the TCP bridge |
| `VescLinkStale` | a divergence of section 5 | one kind of read of two nodes and a BMS read, the code's 3 retries and 3 attempts |
| `MqttSession` | `TypeOK`, `GoneMeansOffline`, `RetainedIsLast`, `AvailabilitySettles`, `CommandsReachable`, `ShutdownEnds` | window of 2, 5 publications in paho, 1 restart |
| `Scanner` | `TypeOK`, `CapsHeld`, `HostsAsListed`, `AnswersKept`, `ScanEnds`, `CallSpec` | 5 hosts, 3 boards, 2 of them without uuid; ports 7, 8 and 10, invalid ones too; limits below, at and above each cap, negative ones too; up to 3 workers |
| `RealtimeDecode` | `TypeOK`, `ReadAsTheCoreAssumes`, `AlertsNotHidden`, `RaisesWhenTooWide` | 5 packages: the speed first, last, missing, twice, lists of equal and different width; all masks; bytes 60 and 128, whose four values are two fast ones and two slow negative ones |
| `MultiBoardAliased` | `DeviceIdsUnique`, `RegistrySpec`: is a device id ever used twice, a board with several addresses shown twice, or a device renamed? (`RegistrySpec` includes `OneDevicePerBoard`) | 5 endpoints, 3 boards: the configured one and another with two addresses each, one without uuid; refused connects |
| `MultiBoardExposed` | `TypeOK`, `BoardsExposed`: is a board that stays exposed in the end? | 4 endpoints, 3 boards; the configured one, and one with two addresses that come and go together, are not always there; connects time out; refresh at every second poll |
| `MultiBoardRefused` | a divergence of section 5 | 3 endpoints |

Three requests in the TCP bridge are enough to spoil all three decode attempts
of a call without any fault of the link. A window of two with five publications
lets the last one of a shutdown wait behind the window. The bounds of the hard
limits of `Scanner` (1024 hosts and so on) are replaced by small ones on both
sides of which the sections lie.

Two addresses per board are enough for an answer to be dropped by the scan, by the
key and by the identity; a third endpoint's answer is behind a connect that
raises. `Scanner` alone turns deadlock checking off: a scan is over when it is over.

Fairness. `FairSpec` has weak fairness of `MainThread` (an endless loop that
sleeps and polls; each of its calls has a timeout, so each step ends) and of
`PublishPending` (the paho thread has nothing to wait for between `put_nowait`
and the publication). Nothing is assumed of the board, the messages, time or
restarts; `OnlineWhenUp` and its kin say what follows *if* the board stays in
one condition. `MaxRestarts` is 0 in the liveness runs, since a restart loses
accepted commands by design; `CommandsAccountedFor` says so precisely.

`FairSpec` of `MultiBoard` has weak fairness of its main thread and of every
probe (each call has a timeout), and of `SessionEstablished`: paho's thread, once
started, retries with a delay of at most 30 seconds (`reconnect_delay_set`), so a
broker that accepts connections again is reached. It assumes nothing of a refused
connect and nothing of the boards; `BoardsExposed` says what follows if the
network stays as it is.

`FairSpec` of `VescLink` has weak fairness of the client only: every blocking call
has a socket timeout, so a wait ends whatever the bridge does. `FairSpec` of
`MqttSession` has it of the main thread, of the two timeouts, of paho's reconnects
and of what a connection carries; `Break`, `Kill` and `Restart` have none, and the
properties speak of a connection that stays. `FairSpec` of `Scanner`: each thread
goes on, and each probe has a timeout.

## 4. Proofs

`OnewheelBridge_proofs` proves, for all constants that satisfy the named
assumptions (any set of boards, any CAN ids, any queue size, cooldown, refresh
period, any number of commands and restarts):

| theorem | statement |
|---|---|
| `TypeTheorem` | `Spec => []TypeOK` |
| `AccountedForTheorem` | `Spec => []CommandsAccountedFor` |
| `LedgerTheorem` | `Spec => LedgerSpec`: the bridge implements `CommandLedger` |
| `IdleTheorem` | `Spec => []IdleBeforeWrite` |
| `BmsTargetTheorem` | `Spec => []BmsTargetOnBus` |
| `LedTargetTheorem` | `Spec => []LedTargetSupported` |
| `CooldownTheorem` | `Spec => []CooldownHeld` |

The assumptions: configured CAN ids are CAN ids, boards and payloads have their
types, the numbers are naturals with a positive queue size and refresh period,
and `None` is none of the values it is told apart from.

The argument. `FlowInvariant` = `TypeOK` and `FlowOK`: a command is running
exactly while the main thread is at `cooldown` or works for `caller` =
"control", a snapshot is empty outside a poll, and the present board is among
those `seen`. It is inductive by itself (one lemma per action). On top of it:

- `LedgerOK`: what is known of each id. A queued id occurs once, is not written
  and has no outcome; the running one is written exactly at `report`; an id
  beyond the last request is untouched, which is why a new message never
  collides with an old command. `CommandsAccountedFor` follows, and with
  `LedgerOK` every step of the bridge maps to a step of `CommandLedger` or to
  a stutter (`waiting <- queue`, `running <- cmd`).
- `SafetyInvariant`: `FreshOK` says that each entry of the cache and of the
  snapshot that a running command has filled agrees with some board of `seen`,
  read by read. `IdleBeforeWrite` alone is not inductive: when the validation
  is reached, nothing in it says where the snapshot came from. The forced
  refresh matters: without it (mutant `StaticSkipped`) `FreshOK` fails at
  `nodes`.
- `CooldownOK`: the code's clock and that of the last success agree, a command that
  passed the test is never overtaken by another success, and the last frame is
  no younger than the last success unless its command is still to be reported
  or is `Unanswered`. The last case is real (section 5), so it is in `CooldownHeld`
  too; that it stays what it is needs `LedgerOK`: an outcome is never replaced
  (`RejectedStays`).

`MultiBoard_proofs` proves, for every network, set of boards, broker behaviour and
period:

| theorem | statement |
|---|---|
| `TypeCorrect` | `Spec => []TypeOK` |
| `DeviceIdsAreUnique` | `StableAddresses` implies `Spec => []DeviceIdsUnique` |
| `BoardsShownOnce` | `StableAddresses` and `PrimaryAnswers` imply `Spec => []OneDevicePerBoard` |
| `FleetIsARegistry` | `StableAddresses` and `PrimaryAnswers` imply `Spec => RegistrySpec`: the fleet implements `DeviceRegistry` |
| `FleetTakesScanCall` | `Spec => TakesScanCall`: the fleet takes from a scan what `ScanCall` promises |

`StableAddresses` says that an endpoint only ever leads to one board (it may be
off, and a board may have many endpoints); `PrimaryAnswers` that the configured
board never misses a firmware query. Neither can be dropped: without the first
`DeviceIdsUnique` fails (section 5, exchanged addresses); without the second a configured
board that is off when the process starts, and has a second address in the
scanned networks, is registered there as a new device, because nothing of its
identity is cached. `DeviceIdsUnique` alone is not inductive: that two devices
differ follows from their identities, those from the comparison with `known`,
and that `known` is complete follows from what the registry and the answers in
flight say of each endpoint. `FleetInvariant` collects these four facts
(`RegistryOK`, `AnswersOK`, `KnownOK`, `IdentitiesDistinct`); with stable addresses
no step changes an identity that is compared.

`FleetTakesScanCall` needs no condition on the network, only that a probe that is over
has answered once at most (`ProbesInvariant`); the lemma `KeptAsReturned` has the other
direction too: `EndProbes` leaves open exactly what `ScanCall` leaves open.

`FleetIsARegistry` adds the steps to the states: it maps `ConnectPrimary` and
`AddBoard` to `Enrol`, and the first poll that reaches a board to `Show`. That the board shown never changes
again is the use of `StableAddresses`; that a new device's id is free and its board
not shown elsewhere are the two invariants above, taken after the step.

`VescLink_proofs` proves, for every set of calls and nodes, every number of retries
and attempts and every capacity of the TCP bridge:

| theorem | statement |
|---|---|
| `TypesHold` | `Spec => []TypeOK` |
| `FramesAreBounded` | `Spec => []FramesBounded` |
| `StaleAnswersWereKept` | `Spec => []StaleOnlyIfKept` |
| `FailuresAreExhaustive` | `Spec => []FailsOnlyWhenExhausted` |
| `CallsKeepTheirPromise` | `Spec => CallSpec`: the client implements `VescCall` |

`FramesBounded` speaks of all frames of a call, so it needs how many the attempts
that are over can have used: `Counted` bounds `frames` by the rounds and attempts
passed, and one lemma for each except branch carries it on. It also gives the
refinement its guards (a frame was sent before an answer counts; a BMS write is
sent once). `StaleInvariant` says that every request or answer of an earlier
call, wherever it is, is of a kind the bridge had kept when the call began.
`FailsOnlyWhenExhausted` speaks of the end of a call only. Its invariant (`Paid`) is
an account: each round that is over was paid for by a stray of another kind or by
as many faults as there are attempts, each attempt of this round by a fault, and the
strays still in the bridge or on the socket have paid for nothing yet. So each
stray spoils one round at most, and a call that fails has met as many as the
property says. `Strays` counts the places of a sequence where a stray stands, so
that one step takes one away or moves it.

`MqttSession_proofs`, for every window and number of restarts:

| theorem | statement |
|---|---|
| `TypesHold` | `Spec => []TypeOK` |
| `GoneIsOffline` | `Spec => []GoneMeansOffline` |
| `LastIsRetained` | `Spec => []RetainedIsLast` |

Both need what is on its way between the process and the broker. `Closing`: once
`disconnect` has begun, the last of `out` is its "offline". `SessionInvariant`:
without a live session the board is not retained online, unless a goodbye was
cut; `OrderInvariant`: the last availability in `out` is the last published, and
when none is left behind `done`, the broker has it, or a will came between.

`Scanner_proofs`, for every section that satisfies `ConfigAssumption`, every network
and every hard limit:

| theorem | statement |
|---|---|
| `ScanTypes` | `Spec => []TypeOK` |
| `ScanIsBounded` | `Spec => []CapsHeld` |
| `ScanListsTheSection` | `Spec => []HostsAsListed` |
| `ScanKeepsAnswers` | `Spec => []AnswersKept` |
| `ScanKeepsItsPromise` | `Spec => CallSpec`: the scanner implements `ScanCall` |

The assumptions: limits and ports are integers, a network does not give an address
twice, no two endpoints have the same key. `ListInvariant` and `PoolInvariant` are
enough for the caps; the types of the tasks add where a port comes from (`Ports`,
and the division in `Tasks`).

- `ResultInvariant`, for the answers: each answer there was is still with the pool or
  has an endpoint of the same board among those kept (of the same address, without a
  uuid), each endpoint kept was an answer, and no two are of one device. When
  nothing runs and nothing waits, the kept ones are one of each.
- `HostsInvariant`, for the list: the reference of `HostsAsListed` puts all places
  of the section in order and takes the first of each host, while the code goes
  through them one by one, cuts each network and stops at the limit. `Seen` are the
  places the code has passed, those behind the cut of a network included;
  `SeenInvariant` says that the list is the reference's for `Seen`. A place more
  either adds the next host (`ListedNext`) or changes nothing; at the limit no later
  place matters (`ListedWhenFull`); and no place behind the cut of a network
  matters, because the network alone fills the list then (`NothingCut`): its
  addresses are distinct, which is where that assumption is used, and where cutting
  to the *free* places (mutant `FirstFree`) fails.
- `InOrderFacts`: a finite set in a strict order is listed by `InOrder` without
  gaps and repetitions, by a least counterexample (`LeastNat`); for the endpoints
  this needs that keys are distinct.

`RealtimeDecode_proofs`, for all packages, bytes and alert sections:

| theorem | statement |
|---|---|
| `TypesHold` | `Spec => []TypeOK`: nothing is read beyond the payload |
| `RaisesExactly` | `Spec => []RaisesWhenTooWide` |
| `AlertsAreNotHidden` | `Spec => []AlertsNotHidden` |
| `ReadsAsAssumed` | `Spec => []ReadAsTheCoreAssumes` |

`DecodeInvariant` adds to the types where the decoder is (`OffsetOK`: at each stage
`offset` is the width of the sections read, with the cached list) and what it has
found so far (`FoundOK`).

Only model-checked: the liveness properties (`CommandsAnswered`, `OfflineWhenDown`,
`OnlineWhenUp`, `CacheFollowsBoard`, `TelemetryComplete`, `LedButtonsAppear`,
`BoardsExposed`, `CallsReturn`, `AvailabilitySettles`, `CommandsReachable`,
`ShutdownEnds`, `ScanEnds`), since the prover has no support for liveness under
fairness here. Every invariant and every implementation a passing run checks is
also a theorem.

## 5. What the code does differently from its documents

- *Command status.* README 180 of the repository calls the command status the
  outcome of a command. `enqueue_control_command` publishes "queued" after the
  command is on the queue (77, 82), from the other thread; an outcome published
  in between is overwritten, and the sensor shows "queued" until the next
  command. Run `OnewheelBridgeStatus`.
- *Lights query.* README 252 promises no LED state query unless controls are
  enabled; `poll_once` (177) does not look at `controls.enabled`. Plain from the
  line (`LightsPolled`), so no run is spent on it.
- *LED buttons.* `config.example.toml` 63 says that they are shown only for
  supported packages. The retained configs of a package that was supported once
  are never removed (`publish_discovery` skips a button and never sends the empty
  payload that withdraws one): plain from the lines, so no run is spent on it.
- *Refused connect.* `_add_board` (multibridge.py 62-63) registers a board before
  it connects it. README 95 promises a device for each bridge that responds;
  one whose connect raised is registered, never connected again, and skipped
  by every later scan. Run `MultiBoardRefused`.
- *Moved board.* A board that changes its address stays known under the old one
  (multibridge.py 47-53, 82) and is not exposed at the new one before a restart.
  `BoardsExposed` is therefore claimed for boards that stay at a scanned address,
  and its instance lets both addresses of a board come and go together.
- *Exchanged addresses.* README 111 promises unique client ids. When another board
  takes the address of a registered one, the cached firmware of that runtime
  changes and its device id does not; the first board is registered a second
  time under the same ids. `StableAddresses` of section 4 rules this out.
- *Answers of earlier calls.* README 112 promises fresh BMS telemetry for guarded
  writes, and `_retry_decode` (297-300) that a frame that is not the response is
  discarded. One that has the same command bytes is not: it is returned as the
  answer, although it is older, or of another CAN node. One answer kept by
  the TCP bridge can shift all later calls of its command by one. Run
  `VescLinkStale`; `StaleOnlyIfKept` is what does hold. `ping_can` and the LED
  write have no decode attempts, so that a single stray frame makes them fail.

One thing no document speaks of, and no run refutes: the cooldown is counted from
the last *success*. An LED frame that was sent, and whose answer did not come, ends
in an exception before `_last_command_at` is set (261), so its command is reported
rejected although the board may have obeyed it, and the next one may be written
at once. `CooldownHeld` allows exactly this exception: it relates each write
to the last success and to the last frame.

## 6. Not modelled, and what is left

Not modelled:

- *Configuration merge* (`config.py`): runs once, before there is any state, and has
  no order of events to go wrong. Its results are the CONSTANTS, their
  assumptions what the code makes of them.
- *`close` and `print_once` of the fleet*: `close` calls each board's `disconnect`,
  which `MqttSession` has, and a failure of one does not stop the others (121-125);
  `print_once` has no caller.
- *The other decoders* (firmware, controller, BMS, Refloat info): fixed fields in a
  row. What depends on them is modelled by its outcome: a field's value, or a
  frame that does not decode (`ReadUnreadable`).
- *Payload texts* of discovery, state and raw topics: layout.
- *Time*: the cooldown has ticks, everything else has timeouts that end. How long a
  scan or a board that times out delays the others is not a question these
  models answer. The wall clock only goes forward.
- *Packaging and tests*: read as evidence of what is promised.

The hazards without a property are in `PROJECT.json` with the reason of each.

Left for later: a theorem that ties `VescCall` to the write and the reads of the
core, as `FleetTakesScanCall` ties `ScanCall` to the fleet; and the safety halves of
the liveness properties (what a step towards the goal never undoes).
