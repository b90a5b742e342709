----------------------- MODULE OnewheelBridge_proofs -----------------------
(***************************************************************************)
(* Proofs about OnewheelBridge for every value of its constants.           *)
(***************************************************************************)
EXTENDS OnewheelBridgeProperties, TLAPS

(* The types, and which command runs at which step.                         *)
FlowInvariant == TypeOK /\ FlowOK

-----------------------------------------------------------------------------
(* Facts about the data.                                                   *)

(* The fields of a board have their types.                                 *)
LEMMA BoardFacts ==
  ASSUME NEW b \in Boards
  PROVE  /\ b.nodes \subseteq CanIds /\ b.controllers \subseteq CanIds
         /\ b.refloats \subseteq CanIds /\ b.bms \in CanIds
         /\ b.fault \in BOOLEAN /\ b.profile \in Profiles
         /\ b.ride \in Readings
BY BoardAssumption DEF BoardType

(* Filling one entry of the static cache keeps its type.                   *)
LEMMA CacheFacts ==
  ASSUME NEW k \in CacheType
  PROVE  /\ k.nodes \subseteq CanIds
         /\ [k EXCEPT !.firmware = TRUE] \in CacheType
         /\ \A ns \in SUBSET CanIds : [k EXCEPT !.nodes = ns] \in CacheType
         /\ \A p \in Profiles : /\ [k EXCEPT !.info = p] \in CacheType
                                /\ [k EXCEPT !.ids = p] \in CacheType
BY DEF CacheType

(* Filling one section of a snapshot keeps its type.                       *)
LEMMA SnapshotFacts ==
  ASSUME NEW s \in SnapshotType
  PROVE  /\ \A f \in BOOLEAN : [s EXCEPT !.controller = f] \in SnapshotType
         /\ \A c \in CanIds : [s EXCEPT !.bms = c] \in SnapshotType
         /\ \A r \in Readings : [s EXCEPT !.realtime = r] \in SnapshotType
         /\ s.bms \in CanIds \union {None}
BY DEF SnapshotType

(* The empty cache and the empty snapshot are typed.                       *)
LEMMA EmptyFacts == EmptyCache \in CacheType /\ EmptySnapshot \in SnapshotType
BY DEF EmptyCache, EmptySnapshot, CacheType, SnapshotType

(* What put_nowait and get_nowait do to the length of a queue.             *)
LEMMA QueueFacts ==
  ASSUME NEW S, NEW q \in Seq(S)
  PROVE  /\ Len(q) \in Nat
         /\ \A x \in S : Append(q, x) \in Seq(S) /\ Len(Append(q, x)) = Len(q) + 1
         /\ q # <<>> => /\ Head(q) \in S /\ Tail(q) \in Seq(S)
                        /\ Len(Tail(q)) = Len(q) - 1
OBVIOUS

(* The invariant holds when the process starts.                            *)
LEMMA InitFlow == Init => FlowInvariant
<1> SUFFICES ASSUME Init PROVE FlowInvariant
  OBVIOUS
<1>1. /\ age \in 0 .. Cooldown /\ sinceOk \in 0 .. Cooldown
      /\ sinceWrite \in 0 .. Cooldown
      /\ pollCount \in 0 .. StaticRefreshEvery - 1
      /\ restarts \in 0 .. MaxRestarts
  BY ConfigAssumption, BoundAssumption DEF Init
<1>2. /\ queue \in Seq(Ids) /\ Len(queue) <= QueueSize
      /\ requests \in Seq(Payloads) /\ Len(requests) <= MaxCommands
  BY ConfigAssumption, BoundAssumption DEF Init
<1>3. outcome \in [Ids -> {"none", "ok", "rejected"}]
  BY DEF Init
<1>4. QED
  BY <1>1, <1>2, <1>3, EmptyFacts, IdAssumption
  DEF Init, FlowInvariant, TypeOK, FlowOK, StaticSteps, PollSteps

-----------------------------------------------------------------------------
(* Facts about the shared control flow.                                    *)

(* Publishing a status keeps the broker and the outcomes typed.            *)
LEMMA StatusFacts ==
  ASSUME FlowInvariant, NEW c \in Ids, NEW s \in {"queued", "ok", "rejected"},
         PublishStatus(c, s)
  PROVE  /\ retained' \in Statuses
         /\ outcome' \in [Ids -> {"none", "ok", "rejected"}]
BY DEF FlowInvariant, TypeOK, PublishStatus, Statuses

(* Where the main thread is after a command was rejected.                  *)
LEMMA RejectFacts ==
  ASSUME FlowInvariant, cmd # None, Reject
  PROVE  /\ pc' = "drain" /\ caller' = "cycle" /\ tried' = {} /\ seen' = {}
         /\ cmd' = None /\ snap' = EmptySnapshot
         /\ retained' \in Statuses
         /\ outcome' \in [Ids -> {"none", "ok", "rejected"}]
BY StatusFacts DEF Reject, EndCommand, FlowInvariant, TypeOK

(* The role search only ever tries and resolves CAN ids.                   *)
LEMMA CandidateFacts ==
  ASSUME FlowInvariant
  PROVE  /\ NextCandidates \subseteq CanIds
         /\ \A asked : CandidateAnswers(asked) =>
              thorCanId' \in CanIds /\ thorCanId' \in asked
         /\ \A asked : TryNextCandidate(asked) => tried' \subseteq CanIds
<1>1. NextCandidates \subseteq CanIds
  BY CacheFacts DEF NextCandidates, Candidates, FlowInvariant, TypeOK
<1>2. QED
  BY <1>1 DEF CandidateAnswers, TryNextCandidate, CandidateFails, FlowInvariant, TypeOK

(* A candidate that failed changes nothing but the search.                 *)
LEMMA TryFlow ==
  ASSUME FlowInvariant, NEW asked, TryNextCandidate(asked), ReadFrame
  PROVE  FlowInvariant'
BY CandidateFacts
DEF TryNextCandidate, ReadFrame, FlowInvariant, TypeOK, FlowOK, clock

(* A failed static read continues, announces or rejects.                   *)
LEMMA StaticFailedFlow ==
  ASSUME FlowInvariant, NEW next \in {"nodes", "info", "ids", "controller"},
         pc \in StaticSteps, StaticFailed(next), ReadFrame,
         UNCHANGED <<cache, thorCanId>>
  PROVE  FlowInvariant'
<1>1. CASE caller = "cycle" /\ Continue(next) /\ UNCHANGED snap
  BY <1>1 DEF Continue, ReadFrame, FlowInvariant, TypeOK, FlowOK, StaticSteps, PollSteps, clock
<1>2. CASE caller = "connect" /\ Continue("announce") /\ UNCHANGED snap
  BY <1>2 DEF Continue, ReadFrame, FlowInvariant, TypeOK, FlowOK, StaticSteps, PollSteps, clock
<1>3. CASE caller = "control" /\ Reject
  <2>1. cmd # None
    BY <1>3 DEF FlowInvariant, FlowOK
  <2>2. QED
    BY <1>3, <2>1, RejectFacts, EmptyFacts
    DEF ReadFrame, FlowInvariant, TypeOK, FlowOK, StaticSteps, PollSteps, clock
<1>4. QED
  BY <1>1, <1>2, <1>3 DEF StaticFailed

-----------------------------------------------------------------------------
(* One lemma per action of the main thread, the paho thread and the        *)
(* environment.                                                            *)

(* connect() reaches the forced refresh.                                   *)
LEMMA ConnectFlow == FlowInvariant /\ Connect => FlowInvariant'
BY DEF Connect, Continue, FlowInvariant, TypeOK, FlowOK, StaticSteps,
       PollSteps, canIds, clock

(* The firmware read.                                                      *)
LEMMA FirmwareFlow == FlowInvariant /\ RefreshFirmware => FlowInvariant'
<1> SUFFICES ASSUME FlowInvariant, RefreshFirmware PROVE FlowInvariant'
  OBVIOUS
<1>1. CASE /\ cache' = [cache EXCEPT !.firmware = TRUE]
           /\ Continue("nodes")
           /\ UNCHANGED snap
  <2>1. cache' \in CacheType
    BY <1>1, CacheFacts DEF FlowInvariant, TypeOK
  <2>2. QED
    BY <1>1, <2>1 DEF RefreshFirmware, Continue, ReadFrame, FlowInvariant,
       TypeOK, FlowOK, StaticSteps, PollSteps, clock
<1>2. CASE StaticFailed("nodes") /\ UNCHANGED cache
  BY <1>2, StaticFailedFlow DEF RefreshFirmware, StaticSteps
<1>3. QED
  BY <1>1, <1>2 DEF RefreshFirmware

(* The CAN node read.                                                      *)
LEMMA CanNodesFlow == FlowInvariant /\ RefreshCanNodes => FlowInvariant'
<1> SUFFICES ASSUME FlowInvariant, RefreshCanNodes PROVE FlowInvariant'
  OBVIOUS
<1>1. CASE /\ cache' = [cache EXCEPT !.nodes = board.nodes]
           /\ Continue("info")
           /\ UNCHANGED snap
  <2>1. cache' \in CacheType
    BY <1>1, CacheFacts, BoardFacts DEF FlowInvariant, TypeOK
  <2>2. QED
    BY <1>1, <2>1 DEF RefreshCanNodes, Continue, ReadFrame, FlowInvariant,
       TypeOK, FlowOK, StaticSteps, PollSteps, clock
<1>2. CASE StaticFailed("info") /\ UNCHANGED cache
  BY <1>2, StaticFailedFlow DEF RefreshCanNodes, StaticSteps
<1>3. QED
  BY <1>1, <1>2 DEF RefreshCanNodes

(* The package info read.                                                  *)
LEMMA RefloatInfoFlow == FlowInvariant /\ RefreshRefloatInfo => FlowInvariant'
<1> SUFFICES ASSUME FlowInvariant, RefreshRefloatInfo PROVE FlowInvariant'
  OBVIOUS
<1>1. CASE /\ CandidateAnswers(board.refloats)
           /\ cache' = [cache EXCEPT !.info = board.profile]
           /\ Continue("ids")
           /\ UNCHANGED snap
  <2>1. cache' \in CacheType /\ thorCanId' \in CanIds
    BY <1>1, CacheFacts, BoardFacts, CandidateFacts DEF FlowInvariant, TypeOK
  <2>2. QED
    BY <1>1, <2>1 DEF RefreshRefloatInfo, Continue, ReadFrame, FlowInvariant,
       TypeOK, FlowOK, StaticSteps, PollSteps, clock
<1>2. CASE TryNextCandidate(board.refloats)
  BY <1>2, TryFlow DEF RefreshRefloatInfo
<1>3. CASE StaticFailed("ids") /\ UNCHANGED <<cache, thorCanId>>
  BY <1>3, StaticFailedFlow DEF RefreshRefloatInfo, StaticSteps
<1>4. QED
  BY <1>1, <1>2, <1>3 DEF RefreshRefloatInfo

(* The id list read, the last of a refresh.                                *)
LEMMA RefloatIdsFlow == FlowInvariant /\ RefreshRefloatIds => FlowInvariant'
<1> SUFFICES ASSUME FlowInvariant, RefreshRefloatIds PROVE FlowInvariant'
  OBVIOUS
<1>1. CASE /\ CandidateAnswers(board.refloats)
           /\ cache' = [cache EXCEPT !.ids = board.profile]
           /\ Continue(IF caller = "connect" THEN "announce" ELSE "controller")
           /\ UNCHANGED snap
  <2>1. cache' \in CacheType /\ thorCanId' \in CanIds
    BY <1>1, CacheFacts, BoardFacts, CandidateFacts DEF FlowInvariant, TypeOK
  <2>2. QED
    BY <1>1, <2>1 DEF RefreshRefloatIds, Continue, ReadFrame, FlowInvariant,
       TypeOK, FlowOK, StaticSteps, PollSteps, clock
<1>2. CASE TryNextCandidate(board.refloats)
  BY <1>2, TryFlow DEF RefreshRefloatIds
<1>3. CASE StaticFailed("controller") /\ UNCHANGED <<cache, thorCanId>>
  BY <1>3, StaticFailedFlow DEF RefreshRefloatIds, StaticSteps
<1>4. QED
  BY <1>1, <1>2, <1>3 DEF RefreshRefloatIds

(* connect() publishes discovery and enters the loop.                      *)
LEMMA AnnounceFlow == FlowInvariant /\ Announce => FlowInvariant'
BY DEF Announce, PublishDiscovery, LedButtonsIncluded, FlowInvariant, TypeOK,
       FlowOK, StaticSteps, PollSteps, canIds, clock, ledger

(* A step of poll_once that goes to the next section.                      *)
LEMMA SectionFlow ==
  ASSUME FlowInvariant, NEW next \in {"bms", "realtime", "lights", "polled"},
         pc \in PollSteps, Continue(next), ReadFrame, UNCHANGED cache,
         snap' \in SnapshotType, thorCanId' \in CanIds
  PROVE  FlowInvariant'
BY DEF Continue, ReadFrame, FlowInvariant, TypeOK, FlowOK, StaticSteps,
       PollSteps, clock

(* The controller section of a poll.                                       *)
LEMMA ControllerFlow == FlowInvariant /\ PollController => FlowInvariant'
<1> SUFFICES ASSUME FlowInvariant, PollController PROVE FlowInvariant'
  OBVIOUS
<1>1. CASE TryNextCandidate(board.controllers)
  BY <1>1, TryFlow DEF PollController
<1>2. CASE ~TryNextCandidate(board.controllers)
  <2>1. snap' \in SnapshotType /\ thorCanId' \in CanIds
    BY <1>2, SnapshotFacts, BoardFacts, CandidateFacts
    DEF PollController, FlowInvariant, TypeOK
  <2>2. QED
    BY <1>2, <2>1, SectionFlow DEF PollController, PollSteps
<1>3. QED
  BY <1>1, <1>2

(* The BMS section of a poll.                                              *)
LEMMA BmsFlow == FlowInvariant /\ PollBms => FlowInvariant'
<1> SUFFICES ASSUME FlowInvariant, PollBms PROVE FlowInvariant'
  OBVIOUS
<1>1. snap' \in SnapshotType /\ thorCanId' \in CanIds
  BY SnapshotFacts, BoardFacts DEF PollBms, FlowInvariant, TypeOK
<1>2. QED
  BY <1>1, SectionFlow DEF PollBms, PollSteps

(* The Refloat section of a poll.                                          *)
LEMMA RealtimeFlow == FlowInvariant /\ PollRealtime => FlowInvariant'
<1> SUFFICES ASSUME FlowInvariant, PollRealtime PROVE FlowInvariant'
  OBVIOUS
<1>1. CASE TryNextCandidate(SureRealtimeNodes)
  BY <1>1, TryFlow DEF PollRealtime
<1>2. CASE ~TryNextCandidate(SureRealtimeNodes)
  <2>1. snap' \in SnapshotType /\ thorCanId' \in CanIds
    BY <1>2, SnapshotFacts, CandidateFacts
    DEF PollRealtime, FlowInvariant, TypeOK
  <2>2. QED
    BY <1>2, <2>1, SectionFlow DEF PollRealtime, PollSteps
<1>3. QED
  BY <1>1, <1>2

(* The optional lights section of a poll.                                  *)
LEMMA LightsFlow == FlowInvariant /\ PollLights => FlowInvariant'
<1> SUFFICES ASSUME FlowInvariant, PollLights PROVE FlowInvariant'
  OBVIOUS
<1>1. CASE TryNextCandidate(LightNodes)
  BY <1>1, TryFlow DEF PollLights
<1>2. CASE ~TryNextCandidate(LightNodes)
  <2>1. snap' \in SnapshotType /\ thorCanId' \in CanIds
    BY <1>2, CandidateFacts DEF PollLights, FlowInvariant, TypeOK
  <2>2. QED
    BY <1>2, <2>1, SectionFlow DEF PollLights, PollSteps
<1>3. QED
  BY <1>1, <1>2

(* The ends of a poll cycle and of the drain.                              *)
LEMMA CycleFlow ==
  FlowInvariant /\ (BeginCycle \/ EndDrain \/ PublishSnapshot \/ CycleFailed)
    => FlowInvariant'
<1> SUFFICES ASSUME FlowInvariant PROVE
      (BeginCycle \/ EndDrain \/ PublishSnapshot \/ CycleFailed)
        => FlowInvariant'
  OBVIOUS
<1>1. CASE BeginCycle
  <2>1. pollCount' \in 0 .. StaticRefreshEvery - 1
    BY <1>1, ConfigAssumption DEF BeginCycle, FlowInvariant, TypeOK
  <2>2. QED
    BY <1>1, <2>1 DEF BeginCycle, Continue, FlowInvariant, TypeOK, FlowOK,
       StaticSteps, PollSteps, canIds, clock
<1>2. CASE EndDrain
  BY <1>2 DEF EndDrain, Continue, FlowInvariant, TypeOK, FlowOK, StaticSteps,
     PollSteps, canIds, clock
<1>3. CASE PublishSnapshot
  BY <1>3, EmptyFacts DEF PublishSnapshot, PublishDiscovery,
     LedButtonsIncluded, Continue, FlowInvariant, TypeOK, FlowOK, StaticSteps,
     PollSteps, canIds, clock
<1>4. CASE CycleFailed
  BY <1>4 DEF CycleFailed, Connected, Continue, FlowInvariant, TypeOK, FlowOK,
     StaticSteps, PollSteps, canIds, clock
<1>5. QED
  BY <1>1, <1>2, <1>3, <1>4

(* get_nowait: a command starts.                                           *)
LEMMA DequeueFlow == FlowInvariant /\ Dequeue => FlowInvariant'
<1> SUFFICES ASSUME FlowInvariant, Dequeue PROVE FlowInvariant'
  OBVIOUS
<1>1. /\ cmd' \in Ids /\ cmd' # None
      /\ queue' \in Seq(Ids) /\ Len(queue') <= QueueSize
  BY QueueFacts, NoneAssumption, ConfigAssumption
  DEF Dequeue, GetCommand, FlowInvariant, TypeOK
<1>2. QED
  BY <1>1 DEF Dequeue, FlowInvariant, TypeOK, FlowOK, StaticSteps, PollSteps,
     canIds, clock, broker

(* The cooldown test of _execute_control_command.                          *)
LEMMA CooldownFlow == FlowInvariant /\ CheckCooldown => FlowInvariant'
<1> SUFFICES ASSUME FlowInvariant, CheckCooldown PROVE FlowInvariant'
  OBVIOUS
<1>1. cmd # None
  BY DEF CheckCooldown, FlowInvariant, FlowOK
<1>2. CASE Reject
  BY <1>1, <1>2, RejectFacts, EmptyFacts
  DEF CheckCooldown, ReadFrame, FlowInvariant, TypeOK, FlowOK, StaticSteps,
      PollSteps, clock
<1>3. CASE ~Reject
  BY <1>1, <1>3 DEF CheckCooldown, ReadFrame, FlowInvariant, TypeOK, FlowOK,
     StaticSteps, PollSteps, clock
<1>4. QED
  BY <1>2, <1>3

(* The validation of a control snapshot.                                   *)
LEMMA ValidateFlow == FlowInvariant /\ ValidateControl => FlowInvariant'
<1> SUFFICES ASSUME FlowInvariant, ValidateControl PROVE FlowInvariant'
  OBVIOUS
<1>1. cmd # None
  BY DEF ValidateControl, FlowInvariant, FlowOK
<1>2. CASE Reject /\ UNCHANGED bmsCanId
  BY <1>1, <1>2, RejectFacts, EmptyFacts
  DEF ValidateControl, FlowInvariant, TypeOK, FlowOK, StaticSteps, PollSteps,
      clock
<1>3. CASE ~(Reject /\ UNCHANGED bmsCanId)
  <2>1. bmsCanId' \in CanIds
    BY <1>3, SnapshotFacts DEF ValidateControl, EffectiveBms, FlowInvariant, TypeOK
  <2>2. QED
    BY <1>1, <1>3, <2>1, EmptyFacts DEF ValidateControl, Continue,
       FlowInvariant, TypeOK, FlowOK, StaticSteps, PollSteps, clock
<1>4. QED
  BY <1>2, <1>3

(* The write.                                                              *)
LEMMA WriteFlow == FlowInvariant /\ SendWrite => FlowInvariant'
<1> SUFFICES ASSUME FlowInvariant, SendWrite PROVE FlowInvariant'
  OBVIOUS
<1>1. /\ cmd # None /\ written' \subseteq Ids
      /\ sinceWrite' \in 0 .. Cooldown /\ lastWritten' \in Ids \union {None}
  BY ConfigAssumption DEF SendWrite, FrameSent, FlowInvariant, TypeOK, FlowOK
<1>2. CASE Reject
  BY <1>1, <1>2, RejectFacts, EmptyFacts
  DEF SendWrite, FlowInvariant, TypeOK, FlowOK, StaticSteps, PollSteps,
      canIds, clock
<1>3. CASE ~Reject
  BY <1>1, <1>3 DEF SendWrite, Continue, FlowInvariant, TypeOK, FlowOK,
     StaticSteps, PollSteps, canIds, clock
<1>4. QED
  BY <1>2, <1>3

(* The report of a success.                                                *)
LEMMA ReportFlow == FlowInvariant /\ ReportOk => FlowInvariant'
<1> SUFFICES ASSUME FlowInvariant, ReportOk PROVE FlowInvariant'
  OBVIOUS
<1>1. cmd \in Ids
  BY DEF ReportOk, FlowInvariant, TypeOK, FlowOK
<1>2. /\ retained' \in Statuses
      /\ outcome' \in [Ids -> {"none", "ok", "rejected"}]
  BY <1>1, StatusFacts DEF ReportOk, EndCommand
<1>3. age' \in 0 .. Cooldown /\ sinceOk' \in 0 .. Cooldown
  BY ConfigAssumption DEF ReportOk, StartCooldown
<1>4. QED
  BY <1>1, <1>2, <1>3, EmptyFacts DEF ReportOk, EndCommand, FlowInvariant,
     TypeOK, FlowOK, StaticSteps, PollSteps, canIds

(* A new message: refused, queued or turned away at a full queue.          *)
LEMMA PressFlow ==
  ASSUME FlowInvariant, NEW action \in Payloads, Press(action)
  PROVE  FlowInvariant'
<1> DEFINE c == Len(requests) + 1
<1>1. /\ c \in Ids
      /\ requests' \in Seq(Payloads) /\ Len(requests') <= MaxCommands
  BY QueueFacts, BoundAssumption DEF Press, FlowInvariant, TypeOK, Ids
<1>2. /\ queue' \in Seq(Ids) /\ Len(queue') <= QueueSize
      /\ accepted' \subseteq Ids
      /\ pending' \in Statuses \union {None}
      /\ retained' \in Statuses \union {None}
      /\ outcome' \in [Ids -> {"none", "ok", "rejected"}]
  <2>1. CASE EnqueueControlCommand(c, action)
    <3> HIDE DEF c
    <3>1. [id |-> c, status |-> "queued"] \in Statuses
          /\ [id |-> c, status |-> "rejected"] \in Statuses
      BY <1>1 DEF Statuses
    <3>2. CASE PublishStatus(c, "rejected") /\ UNCHANGED <<queue, accepted, pending>>
      BY <1>1, <3>2, StatusFacts DEF FlowInvariant, TypeOK
    <3>3. CASE /\ QueueRoom
               /\ queue' = Append(queue, c)
               /\ accepted' = accepted \union {c}
               /\ pending' = [id |-> c, status |-> "queued"]
               /\ UNCHANGED <<outcome, retained>>
      <4>1. queue' \in Seq(Ids) /\ Len(queue') <= QueueSize
        BY <1>1, <3>3, QueueFacts, ConfigAssumption
        DEF QueueRoom, FlowInvariant, TypeOK
      <4>2. QED
        BY <1>1, <3>1, <3>3, <4>1 DEF FlowInvariant, TypeOK
    <3>4. CASE /\ pending' = [id |-> c, status |-> "rejected"]
               /\ UNCHANGED <<queue, accepted, outcome, retained>>
      BY <3>1, <3>4 DEF FlowInvariant, TypeOK
    <3>5. QED
      BY <2>1, <3>2, <3>3, <3>4 DEF EnqueueControlCommand
  <2>2. CASE UNCHANGED <<queue, accepted, pending, outcome, retained>>
    BY <2>2 DEF FlowInvariant, TypeOK
  <2>3. QED
    BY <2>1, <2>2 DEF Press, OnMessage
<1>3. QED
  BY <1>1, <1>2 DEF Press, OnMessage, FlowInvariant, TypeOK, FlowOK, canIds, clock

(* A retained message is ignored.                                          *)
LEMMA RedeliverFlow ==
  ASSUME FlowInvariant, NEW c \in Ids, Redeliver(c)
  PROVE  FlowInvariant'
BY DEF Redeliver, OnMessage, Ignored, FlowInvariant, TypeOK, FlowOK, canIds, clock

(* The paho thread publishes the status it owes.                           *)
LEMMA PendingFlow == FlowInvariant /\ PublishPending => FlowInvariant'
<1> SUFFICES ASSUME FlowInvariant, PublishPending PROVE FlowInvariant'
  OBVIOUS
<1>1. /\ pending.id \in Ids
      /\ pending.status \in {"queued", "ok", "rejected"}
  BY DEF PublishPending, FlowInvariant, TypeOK, Statuses
<1>2. /\ retained' \in Statuses
      /\ outcome' \in [Ids -> {"none", "ok", "rejected"}]
  BY <1>1, StatusFacts DEF PublishPending
<1>3. QED
  BY <1>2 DEF PublishPending, FlowInvariant, TypeOK, FlowOK, canIds, clock

(* Time, the board and the supervisor.                                     *)
LEMMA EnvironmentFlow ==
  FlowInvariant /\ (Tick \/ ChangeBoard \/ Restart) => FlowInvariant'
<1> SUFFICES ASSUME FlowInvariant PROVE
      (Tick \/ ChangeBoard \/ Restart) => FlowInvariant'
  OBVIOUS
<1>1. CASE Tick
  <2>1. /\ age' \in 0 .. Cooldown /\ sinceOk' \in 0 .. Cooldown
        /\ sinceWrite' \in 0 .. Cooldown
    BY <1>1, ConfigAssumption DEF Tick, FlowInvariant, TypeOK
  <2>2. QED
    BY <1>1, <2>1 DEF Tick, FlowInvariant, TypeOK, FlowOK, StaticSteps,
       PollSteps, canIds, broker, ledger
<1>2. CASE ChangeBoard
  BY <1>2 DEF ChangeBoard, FlowInvariant, TypeOK, FlowOK, canIds, clock,
     broker, ledger
<1>3. CASE Restart
  <2>1. /\ age' \in 0 .. Cooldown /\ sinceOk' \in 0 .. Cooldown
        /\ sinceWrite' \in 0 .. Cooldown
        /\ pollCount' \in 0 .. StaticRefreshEvery - 1
        /\ restarts' \in 0 .. MaxRestarts
    BY <1>3, ConfigAssumption, BoundAssumption DEF Restart, FlowInvariant, TypeOK
  <2>2. queue' \in Seq(Ids) /\ Len(queue') <= QueueSize
    BY <1>3, ConfigAssumption DEF Restart
  <2>3. QED
    BY <1>3, <2>1, <2>2, EmptyFacts, IdAssumption DEF Restart, FlowInvariant,
       TypeOK, FlowOK, StaticSteps, PollSteps
<1>4. QED
  BY <1>1, <1>2, <1>3

(* Nothing happens.                                                        *)
LEMMA StutterFlow == FlowInvariant /\ UNCHANGED vars => FlowInvariant'
BY DEF FlowInvariant, TypeOK, FlowOK, vars, canIds, clock, broker, ledger

(* Every step keeps the types and the control flow.                        *)
LEMMA NextFlow == FlowInvariant /\ [Next]_vars => FlowInvariant'
BY ConnectFlow, FirmwareFlow, CanNodesFlow, RefloatInfoFlow, RefloatIdsFlow,
   AnnounceFlow, ControllerFlow, BmsFlow, RealtimeFlow, LightsFlow, CycleFlow,
   DequeueFlow, CooldownFlow, ValidateFlow, WriteFlow, ReportFlow, PressFlow,
   RedeliverFlow, PendingFlow, EnvironmentFlow, StutterFlow
DEF Next, MainThread

(* The types hold, the queue stays within its bound, and a command is being *)
(* executed exactly while the control flow says so.                        *)
THEOREM FlowTheorem == Spec => []FlowInvariant
BY InitFlow, NextFlow, PTL DEF Spec

(* Every variable keeps its type whatever the board, the messages and the  *)
(* restarts do; _command_queue never holds more than its bound.            *)
THEOREM TypeTheorem == Spec => []TypeOK
<1>1. FlowInvariant => TypeOK
  BY DEF FlowInvariant
<1>2. QED
  BY <1>1, FlowTheorem, PTL

-----------------------------------------------------------------------------
(* The ledger of commands.                                                 *)

(* Where put_nowait and get_nowait leave the elements of a queue.          *)
LEMMA QueueElements ==
  ASSUME NEW S, NEW q \in Seq(S)
  PROVE  /\ DOMAIN q = 1 .. Len(q)
         /\ \A i \in DOMAIN q : q[i] \in S
         /\ \A x \in S : /\ DOMAIN Append(q, x) = 1 .. Len(q) + 1
                         /\ \A i \in 1 .. Len(q) : Append(q, x)[i] = q[i]
                         /\ Append(q, x)[Len(q) + 1] = x
         /\ q # <<>> => /\ Head(q) = q[1] /\ 1 \in DOMAIN q
                        /\ DOMAIN Tail(q) = 1 .. Len(q) - 1
                        /\ \A i \in 1 .. Len(q) - 1 : Tail(q)[i] = q[i + 1]
OBVIOUS

(* The ledger is empty when the process starts.                            *)
LEMMA InitLedger == Init => LedgerOK
BY DEF Init, LedgerOK

(* Most steps do not touch the ledger.                                     *)
LEMMA LedgerQuiet ==
  ASSUME LedgerOK, UNCHANGED <<ledger, pending, requests, restarts>>,
         pc' = "report" <=> pc = "report"
  PROVE  LedgerOK'
BY DEF LedgerOK, ledger, Waiting

(* A rejected command leaves with its outcome.                             *)
LEMMA RejectLedger ==
  ASSUME FlowInvariant, LedgerOK, cmd # None, pc # "report", Reject,
         UNCHANGED <<queue, accepted, pending, requests, restarts>>,
         \/ UNCHANGED written
         \/ written' = written \union {cmd}
  PROVE  LedgerOK'
<1>1. /\ cmd \in Ids /\ cmd' = None /\ pc' = "drain"
      /\ outcome' = [outcome EXCEPT ![cmd] = "rejected"]
  BY DEF Reject, EndCommand, PublishStatus, FlowInvariant, TypeOK
<1>2. /\ outcome'[cmd] = "rejected"
      /\ \A c \in Ids : c # cmd => outcome'[c] = outcome[c]
  BY <1>1 DEF FlowInvariant, TypeOK
<1>3. \A i \in DOMAIN queue : queue[i] \in Ids /\ queue[i] # cmd
  BY QueueElements DEF FlowInvariant, TypeOK, LedgerOK
<1>4. pending # None => pending.id \in Ids
  BY DEF FlowInvariant, TypeOK, Statuses
<1>5. accepted \subseteq Ids /\ None \notin Ids
  BY NoneAssumption DEF FlowInvariant, TypeOK
<1>6. QED
  BY <1>1, <1>2, <1>3, <1>4, <1>5 DEF LedgerOK, Waiting

(* The head of the queue becomes the running command.                      *)
LEMMA DequeueLedger ==
  ASSUME FlowInvariant, LedgerOK, Dequeue
  PROVE  LedgerOK'
<1>1. /\ queue \in Seq(Ids) /\ queue # <<>> /\ cmd = None /\ None \notin Ids
      /\ Len(queue) \in Nat
  BY NoneAssumption DEF Dequeue, FlowInvariant, TypeOK, FlowOK
<1>2. /\ DOMAIN queue = 1 .. Len(queue)
      /\ 1 \in DOMAIN queue /\ cmd' = queue[1] /\ cmd' \in Ids
      /\ DOMAIN queue' = 1 .. Len(queue) - 1
      /\ \A i \in DOMAIN queue' : i + 1 \in DOMAIN queue /\ queue'[i] = queue[i + 1]
  BY <1>1, QueueElements DEF Dequeue, GetCommand
<1>3. \A i \in DOMAIN queue : i # 1 => i - 1 \in DOMAIN queue' /\ queue[i] = queue'[i - 1]
  BY <1>1, <1>2
<1>4. /\ \A i, j \in DOMAIN queue' : queue'[i] = queue'[j] => i = j
      /\ \A i \in DOMAIN queue' : queue'[i] # cmd'
  BY <1>1, <1>2 DEF LedgerOK
<1>5. \A c \in Ids : Waiting(c) => Waiting(c)' \/ cmd' = c
  BY <1>2, <1>3 DEF Waiting
<1>6. UNCHANGED <<accepted, written, outcome, pending, requests, restarts>>
      /\ pc' = "cooldown"
  BY DEF Dequeue
<1>7. accepted \subseteq Ids
  BY DEF FlowInvariant, TypeOK
<1>8. QED
  BY <1>1, <1>2, <1>4, <1>5, <1>6, <1>7 DEF LedgerOK

(* Only the running command is ever written.                               *)
LEMMA WriteLedger ==
  ASSUME FlowInvariant, LedgerOK, SendWrite
  PROVE  LedgerOK'
<1>1. cmd # None /\ pc = "write"
  BY DEF SendWrite, FlowInvariant, FlowOK
<1>2. CASE Reject
  BY <1>1, <1>2, RejectLedger DEF SendWrite, FrameSent
<1>3. CASE /\ written' = written \union {cmd}
           /\ Continue("report")
  <2>1. \A i \in DOMAIN queue : queue[i] # cmd
    BY DEF LedgerOK
  <2>2. QED
    BY <1>1, <1>3, <2>1 DEF SendWrite, Continue, LedgerOK, Waiting
<1>4. QED
  BY <1>2, <1>3 DEF SendWrite, FrameSent

(* A command that succeeds was written before.                             *)
LEMMA ReportLedger ==
  ASSUME FlowInvariant, LedgerOK, ReportOk
  PROVE  LedgerOK'
<1>1. /\ cmd \in Ids /\ cmd # None /\ cmd \in written /\ cmd' = None
      /\ outcome' = [outcome EXCEPT ![cmd] = "ok"] /\ pc' = "drain"
  BY DEF ReportOk, EndCommand, PublishStatus, FlowInvariant, TypeOK, FlowOK, LedgerOK
<1>2. /\ outcome'[cmd] = "ok"
      /\ \A c \in Ids : c # cmd => outcome'[c] = outcome[c]
  BY <1>1 DEF FlowInvariant, TypeOK
<1>3. \A i \in DOMAIN queue : queue[i] \in Ids /\ queue[i] # cmd
  BY QueueElements DEF FlowInvariant, TypeOK, LedgerOK
<1>4. pending # None => pending.id \in Ids
  BY DEF FlowInvariant, TypeOK, Statuses
<1>5. accepted \subseteq Ids /\ None \notin Ids
  BY NoneAssumption DEF FlowInvariant, TypeOK
<1>6. QED
  BY <1>1, <1>2, <1>3, <1>4, <1>5 DEF ReportOk, LedgerOK, Waiting

(* A new message takes a fresh id.                                         *)
LEMMA PressLedger ==
  ASSUME FlowInvariant, LedgerOK, NEW action \in Payloads, Press(action)
  PROVE  LedgerOK'
<1> DEFINE c == Len(requests) + 1
<1>1. /\ c \in Ids /\ Len(requests) \in Nat
      /\ DOMAIN requests = 1 .. Len(requests) /\ DOMAIN requests' = 1 .. c
      /\ requests'[c] = action
      /\ \A i \in DOMAIN requests : requests'[i] = requests[i]
  BY QueueElements, QueueFacts, BoundAssumption
  DEF Press, FlowInvariant, TypeOK, Ids
<1>2. /\ c \notin accepted /\ outcome[c] = "none"
      /\ c \notin DOMAIN requests /\ DOMAIN requests \subseteq DOMAIN requests'
      /\ c \in DOMAIN requests'
  BY <1>1 DEF LedgerOK
<1>3. /\ pending = None /\ pc' = pc
      /\ UNCHANGED <<cmd, written, restarts>>
  BY DEF Press, OnMessage
<1>4. accepted \subseteq Ids /\ outcome \in [Ids -> {"none", "ok", "rejected"}]
      /\ None \notin Ids /\ cmd \in Ids \union {None} /\ queue \in Seq(Ids)
  BY NoneAssumption DEF FlowInvariant, TypeOK
<1>5. \A r \in {"queued", "rejected"} :
        /\ [id |-> c, status |-> r].id = c
        /\ [id |-> c, status |-> r].status = r
  OBVIOUS
<1> HIDE DEF c
<1>6. CASE UNCHANGED <<queue, accepted, pending, outcome, retained>>
  BY <1>1, <1>2, <1>3, <1>4, <1>6 DEF LedgerOK, Waiting
<1>7. CASE PublishStatus(c, "rejected") /\ UNCHANGED <<queue, accepted, pending>>
  <2>1. /\ outcome'[c] = "rejected"
        /\ \A d \in Ids : d # c => outcome'[d] = outcome[d]
    BY <1>1, <1>4, <1>7 DEF PublishStatus
  <2>2. \A i \in DOMAIN queue : queue[i] \in Ids /\ queue[i] # c
    BY <1>2, <1>4, QueueElements DEF LedgerOK
  <2>3. QED
    BY <1>1, <1>2, <1>3, <1>4, <1>7, <2>1, <2>2 DEF LedgerOK, Waiting
<1>8. CASE /\ Admitted(action)
           /\ queue' = Append(queue, c)
           /\ accepted' = accepted \union {c}
           /\ pending' = [id |-> c, status |-> "queued"]
           /\ UNCHANGED <<outcome, retained>>
  <2>1. /\ Len(queue) \in Nat
        /\ DOMAIN queue = 1 .. Len(queue) /\ DOMAIN queue' = 1 .. Len(queue) + 1
        /\ \A i \in DOMAIN queue : queue'[i] = queue[i]
        /\ queue'[Len(queue) + 1] = c
    BY <1>1, <1>4, <1>8, QueueElements, QueueFacts
  <2>2. \A i \in DOMAIN queue' : i \in DOMAIN queue \/ i = Len(queue) + 1
    BY <2>1
  <2>3. \A i \in DOMAIN queue : queue[i] # c
    BY <1>2 DEF LedgerOK
  <2>4. cmd # c /\ c \notin written
    BY <1>1, <1>2, <1>4 DEF LedgerOK
  <2>5. \A d : Waiting(d)' <=> Waiting(d) \/ d = c
    BY <2>1, <2>2 DEF Waiting
  <2>6. \A i, j \in DOMAIN queue' : queue'[i] = queue'[j] => i = j
    BY <2>1, <2>2, <2>3 DEF LedgerOK
  <2>7. \A i \in DOMAIN queue' :
          queue'[i] \in accepted' \ written' /\ outcome'[queue'[i]] = "none"
                                         /\ queue'[i] # cmd'
    BY <1>2, <1>3, <1>8, <2>1, <2>2, <2>4 DEF LedgerOK
  <2>8. requests'[c] \in AllowedControlActions
    BY <1>1, <1>8 DEF Admitted
  <2>9. QED
    BY <1>1, <1>2, <1>3, <1>4, <1>5, <1>8, <2>5, <2>6, <2>7, <2>8 DEF LedgerOK
<1>9. CASE /\ pending' = [id |-> c, status |-> "rejected"]
           /\ UNCHANGED <<queue, accepted, outcome, retained>>
  BY <1>1, <1>2, <1>3, <1>4, <1>5, <1>9 DEF LedgerOK, Waiting
<1>10. QED
  BY <1>6, <1>7, <1>8, <1>9 DEF Press, OnMessage, EnqueueControlCommand, c

(* The late status of the callback is not an outcome of an accepted        *)
(* command.                                                                *)
LEMMA PendingLedger ==
  ASSUME FlowInvariant, LedgerOK, PublishPending
  PROVE  LedgerOK'
<1>1. /\ pending # None /\ pending' = None /\ pending.id \in Ids
      /\ UNCHANGED <<pc, queue, cmd, accepted, written, requests, restarts>>
  BY DEF PublishPending, FlowInvariant, TypeOK, Statuses
<1>2. CASE pending.status = "queued"
  BY <1>1, <1>2 DEF PublishPending, PublishStatus, LedgerOK, Waiting
<1>3. CASE pending.status = "rejected"
  <2>1. outcome' = [outcome EXCEPT ![pending.id] = "rejected"]
    BY <1>3 DEF PublishPending, PublishStatus
  <2>2. /\ outcome'[pending.id] = "rejected"
        /\ \A c \in Ids : c # pending.id => outcome'[c] = outcome[c]
    BY <1>1, <2>1 DEF FlowInvariant, TypeOK
  <2>3. pending.id \notin accepted /\ accepted \subseteq Ids
    BY <1>1, <1>3 DEF LedgerOK, FlowInvariant, TypeOK
  <2>4. \A i \in DOMAIN queue : queue[i] \in Ids /\ queue[i] # pending.id
    BY <2>3, QueueElements DEF LedgerOK, FlowInvariant, TypeOK
  <2>5. pending.id \in DOMAIN requests
    BY <1>1 DEF LedgerOK
  <2>6. QED
    BY <1>1, <2>2, <2>3, <2>4, <2>5 DEF LedgerOK, Waiting
<1>4. QED
  BY <1>1, <1>2, <1>3 DEF LedgerOK, FlowInvariant, TypeOK, Statuses

(* A restart empties the queue.                                            *)
LEMMA RestartLedger ==
  ASSUME FlowInvariant, LedgerOK, Restart
  PROVE  LedgerOK'
BY DEF Restart, LedgerOK, FlowInvariant, TypeOK

(* The static reads, the poll and the validation either reject the running *)
(* command or leave the ledger alone.                                      *)
LEMMA ReadLedger ==
  ASSUME FlowInvariant, LedgerOK,
         \/ RefreshFirmware \/ RefreshCanNodes \/ RefreshRefloatInfo
         \/ RefreshRefloatIds \/ PollController \/ PollBms \/ PollRealtime
         \/ PollLights \/ CheckCooldown \/ ValidateControl
  PROVE  LedgerOK'
<1>1. /\ UNCHANGED <<queue, accepted, written, pending, requests, restarts>>
      /\ pc # "report"
  BY DEF RefreshFirmware, RefreshCanNodes, RefreshRefloatInfo,
         RefreshRefloatIds, PollController, PollBms, PollRealtime, PollLights,
         CheckCooldown, ValidateControl, ReadFrame
<1>2. CASE Reject /\ cmd # None
  BY <1>1, <1>2, RejectLedger
<1>3. CASE pc' # "report" /\ UNCHANGED <<cmd, outcome>>
  BY <1>1, <1>3, LedgerQuiet DEF ledger
<1>4. (Reject /\ cmd # None) \/ (pc' # "report" /\ UNCHANGED <<cmd, outcome>>)
  <2>1. \A next \in {"nodes", "info", "ids", "controller"} :
          StaticFailed(next) =>
            (Reject /\ cmd # None) \/ (pc' # "report" /\ UNCHANGED <<cmd, outcome>>)
    BY DEF StaticFailed, Continue, FlowInvariant, FlowOK
  <2>2. \A asked : TryNextCandidate(asked) => pc' = pc /\ UNCHANGED <<cmd, outcome>>
    BY DEF TryNextCandidate
  <2>3. CASE RefreshFirmware \/ RefreshCanNodes
    BY <2>1, <2>3 DEF RefreshFirmware, RefreshCanNodes, Continue
  <2>4. CASE RefreshRefloatInfo \/ RefreshRefloatIds
    BY <1>1, <2>1, <2>2, <2>4 DEF RefreshRefloatInfo, RefreshRefloatIds, Continue
  <2>5. CASE PollController \/ PollBms \/ PollRealtime \/ PollLights
    BY <1>1, <2>2, <2>5 DEF PollController, PollBms, PollRealtime, PollLights, Continue
  <2>6. CASE CheckCooldown \/ ValidateControl
    BY <2>6 DEF CheckCooldown, ValidateControl, Continue, FlowInvariant, FlowOK
  <2>7. QED
    BY <2>3, <2>4, <2>5, <2>6
<1>5. QED
  BY <1>2, <1>3, <1>4

(* The steps that have nothing to do with commands.                        *)
LEMMA QuietLedger ==
  ASSUME FlowInvariant, LedgerOK,
         \/ Connect \/ Announce \/ BeginCycle \/ EndDrain \/ PublishSnapshot
         \/ CycleFailed \/ Tick \/ ChangeBoard \/ UNCHANGED vars
         \/ \E c \in Ids : Redeliver(c)
  PROVE  LedgerOK'
<1>1. UNCHANGED <<ledger, pending, requests, restarts>>
  BY DEF Connect, Announce, BeginCycle, EndDrain, PublishSnapshot,
         CycleFailed, Tick, ChangeBoard, vars, Redeliver, OnMessage, Ignored,
         Continue, ledger
<1>2. pc' = "report" <=> pc = "report"
  BY DEF Connect, Announce, BeginCycle, EndDrain, PublishSnapshot,
         CycleFailed, Tick, ChangeBoard, vars, Redeliver, OnMessage, Continue
<1>3. QED
  BY <1>1, <1>2, LedgerQuiet

(* Every step keeps the ledger.                                            *)
LEMMA NextLedger == FlowInvariant /\ LedgerOK /\ [Next]_vars => LedgerOK'
BY ReadLedger, QuietLedger, DequeueLedger, WriteLedger, ReportLedger,
   PressLedger, PendingLedger, RestartLedger
DEF Next, MainThread

(* What LedgerOK says of each command holds in every behaviour: no id is   *)
(* twice on the queue, only the running command can be written, a queued   *)
(* one has no outcome yet.                                                 *)
THEOREM LedgerInvariance == Spec => []LedgerOK
BY InitLedger, NextLedger, FlowTheorem, PTL DEF Spec

(* Whatever the queue bound, the number of commands and of restarts: an    *)
(* accepted command is waiting, running or answered, and only a restart    *)
(* loses one.                                                              *)
THEOREM AccountedForTheorem == Spec => []CommandsAccountedFor
<1>1. FlowInvariant /\ LedgerOK => CommandsAccountedFor
  <2> SUFFICES ASSUME FlowInvariant, LedgerOK PROVE CommandsAccountedFor
    OBVIOUS
  <2>1. None \notin Ids
    BY NoneAssumption
  <2>2. QED
    BY <2>1 DEF LedgerOK, CommandsAccountedFor, Waiting
<1>2. QED
  BY <1>1, FlowTheorem, LedgerInvariance, PTL

-----------------------------------------------------------------------------
(* OnewheelBridge implements CommandLedger.                                *)

(* The initial states map to the ledger's.                                 *)
LEMMA InitRefines == Init => Ledger!LedgerInit
BY DEF Init, Ledger!LedgerInit

(* A rejection is a failure of the running command.                        *)
LEMMA RejectRefines ==
  ASSUME FlowInvariant, LedgerOK, cmd # None, Reject,
         UNCHANGED <<queue, accepted, restarts>>,
         \/ UNCHANGED written
         \/ cmd \notin written /\ written' = written \union {cmd}
  PROVE  Ledger!Fail
BY DEF Reject, EndCommand, PublishStatus, LedgerOK, Ledger!Fail, Ledger!Finish

(* A read of the board fails the running command or is invisible.          *)
LEMMA ReadRefines ==
  ASSUME FlowInvariant, LedgerOK,
         \/ RefreshFirmware \/ RefreshCanNodes \/ RefreshRefloatInfo
         \/ RefreshRefloatIds \/ PollController \/ PollBms \/ PollRealtime
         \/ PollLights \/ CheckCooldown \/ ValidateControl
  PROVE  Ledger!Fail \/ UNCHANGED Ledger!ledgerVars
<1>1. UNCHANGED <<queue, accepted, written, restarts>>
  BY DEF RefreshFirmware, RefreshCanNodes, RefreshRefloatInfo,
         RefreshRefloatIds, PollController, PollBms, PollRealtime, PollLights,
         CheckCooldown, ValidateControl, ReadFrame
<1>2. (Reject /\ cmd # None) \/ UNCHANGED <<cmd, outcome>>
  <2>1. \A next \in {"nodes", "info", "ids", "controller"} :
          StaticFailed(next) => (Reject /\ cmd # None) \/ UNCHANGED <<cmd, outcome>>
    BY DEF StaticFailed, Continue, FlowInvariant, FlowOK
  <2>2. \A asked : TryNextCandidate(asked) => UNCHANGED <<cmd, outcome>>
    BY DEF TryNextCandidate
  <2>3. CASE RefreshFirmware \/ RefreshCanNodes
    BY <2>1, <2>3 DEF RefreshFirmware, RefreshCanNodes, Continue
  <2>4. CASE RefreshRefloatInfo \/ RefreshRefloatIds
    BY <2>1, <2>2, <2>4 DEF RefreshRefloatInfo, RefreshRefloatIds, Continue
  <2>5. CASE PollController \/ PollBms \/ PollRealtime \/ PollLights
    BY <2>2, <2>5 DEF PollController, PollBms, PollRealtime, PollLights, Continue
  <2>6. CASE CheckCooldown \/ ValidateControl
    BY <2>6 DEF CheckCooldown, ValidateControl, Continue, FlowInvariant, FlowOK
  <2>7. QED
    BY <2>3, <2>4, <2>5, <2>6
<1>3. QED
  BY <1>1, <1>2, RejectRefines DEF Ledger!ledgerVars

(* The steps the ledger does not see.                                      *)
LEMMA QuietRefines ==
  ASSUME \/ Connect \/ Announce \/ BeginCycle \/ EndDrain \/ PublishSnapshot
         \/ CycleFailed \/ Tick \/ ChangeBoard \/ UNCHANGED vars
         \/ \E c \in Ids : Redeliver(c)
  PROVE  UNCHANGED Ledger!ledgerVars
BY DEF Connect, Announce, BeginCycle, EndDrain, PublishSnapshot, CycleFailed,
       Tick, ChangeBoard, vars, Redeliver, OnMessage, Ignored, Continue, ledger,
       Ledger!ledgerVars

(* Dequeuing, writing, reporting and restarting are ledger steps.          *)
LEMMA CommandRefines ==
  ASSUME FlowInvariant, LedgerOK, Dequeue \/ SendWrite \/ ReportOk \/ Restart
  PROVE  Ledger!Start \/ Ledger!Write \/ Ledger!Succeed \/ Ledger!Fail \/ Ledger!Crash
<1>1. CASE Dequeue
  BY <1>1 DEF Dequeue, GetCommand, FlowInvariant, FlowOK, Ledger!Start
<1>2. CASE SendWrite
  <2>1. cmd # None /\ cmd \notin written
    BY <1>2 DEF SendWrite, FlowInvariant, FlowOK, LedgerOK
  <2>2. CASE Reject
    BY <1>2, <2>1, <2>2, RejectRefines DEF SendWrite, FrameSent
  <2>3. CASE written' = written \union {cmd} /\ Continue("report")
    BY <1>2, <2>1, <2>3 DEF SendWrite, Continue, Ledger!Write
  <2>4. QED
    BY <1>2, <2>2, <2>3 DEF SendWrite, FrameSent
<1>3. CASE ReportOk
  BY <1>3 DEF ReportOk, EndCommand, PublishStatus, FlowInvariant, FlowOK,
     LedgerOK, Ledger!Succeed, Ledger!Finish
<1>4. CASE Restart
  BY <1>4 DEF Restart, Ledger!Crash
<1>5. QED
  BY <1>1, <1>2, <1>3, <1>4

(* A message is accepted, refused, or turned away without a trace yet.     *)
LEMMA PressRefines ==
  ASSUME FlowInvariant, LedgerOK, NEW action \in Payloads, Press(action)
  PROVE  \/ \E c \in Ids : Ledger!Accept(c) \/ Ledger!Refuse(c)
         \/ UNCHANGED Ledger!ledgerVars
<1> DEFINE c == Len(requests) + 1
<1>1. c \in Ids /\ c \notin DOMAIN requests
  BY QueueElements, QueueFacts, BoundAssumption
  DEF Press, FlowInvariant, TypeOK, Ids
<1>2. Ledger!New(c)
  BY <1>1 DEF LedgerOK, Ledger!New
<1>3. UNCHANGED <<cmd, written, restarts>>
  BY DEF Press, OnMessage
<1> HIDE DEF c
<1>4. CASE UNCHANGED <<queue, accepted, pending, outcome, retained>>
  BY <1>3, <1>4 DEF Ledger!ledgerVars
<1>5. CASE EnqueueControlCommand(c, action)
  BY <1>1, <1>2, <1>3, <1>5
  DEF EnqueueControlCommand, QueueRoom, PublishStatus, Ledger!ledgerVars,
      Ledger!Accept, Ledger!Refuse
<1>6. QED
  BY <1>1, <1>4, <1>5 DEF Press, OnMessage, c

(* The late status is a refusal, or is invisible.                          *)
LEMMA PendingRefines ==
  ASSUME FlowInvariant, LedgerOK, PublishPending
  PROVE  \/ \E c \in Ids : Ledger!Refuse(c)
         \/ UNCHANGED Ledger!ledgerVars
<1>1. /\ pending # None /\ pending.id \in Ids
      /\ pending.status \in {"queued", "rejected"}
  BY DEF PublishPending, FlowInvariant, TypeOK, Statuses, LedgerOK
<1>2. CASE pending.status = "queued"
  BY <1>2 DEF PublishPending, PublishStatus, Ledger!ledgerVars
<1>3. CASE pending.status = "rejected"
  BY <1>1, <1>3 DEF PublishPending, PublishStatus, LedgerOK, Ledger!Refuse, Ledger!New
<1>4. QED
  BY <1>1, <1>2, <1>3

(* Every step of the bridge is a ledger step or a stutter.                 *)
LEMMA NextRefines ==
  FlowInvariant /\ LedgerOK /\ [Next]_vars
    => [Ledger!LedgerNext]_(Ledger!ledgerVars)
BY ReadRefines, QuietRefines, CommandRefines, PressRefines, PendingRefines
DEF Next, MainThread, Ledger!LedgerNext

(* Every behaviour of the bridge is a behaviour of the ledger, the board,  *)
(* the threads' interleavings and the CAN role search hidden: commands are *)
(* executed in the order of acceptance, one at a time, each answered at    *)
(* most once and written at most once, "ok" only after the write.          *)
THEOREM LedgerTheorem == Spec => LedgerSpec
BY InitRefines, NextRefines, FlowTheorem, LedgerInvariance, PTL
DEF Spec, LedgerSpec, Ledger!LedgerSpec

-----------------------------------------------------------------------------
(* What is known of the board when a frame is written.                     *)

SafetyInvariant ==
  FreshOK /\ IdleBeforeWrite /\ BmsTargetOnBus /\ LedTargetSupported

(* Filling one entry of the static cache leaves the others alone.          *)
LEMMA CacheFields ==
  ASSUME NEW k \in CacheType
  PROVE  /\ LET u == [k EXCEPT !.firmware = TRUE]
            IN  u.nodes = k.nodes /\ u.info = k.info /\ u.ids = k.ids
         /\ \A x : LET u == [k EXCEPT !.nodes = x]
                  IN  u.nodes = x /\ u.info = k.info /\ u.ids = k.ids
         /\ \A x : LET u == [k EXCEPT !.info = x]
                  IN  u.nodes = k.nodes /\ u.info = x /\ u.ids = k.ids
         /\ \A x : LET u == [k EXCEPT !.ids = x]
                  IN  u.nodes = k.nodes /\ u.info = k.info /\ u.ids = x
BY DEF CacheType

(* What a realtime reading leaves in the snapshot.                         *)
LEMMA SnapshotFields ==
  ASSUME NEW s \in SnapshotType
  PROVE  \A x : [s EXCEPT !.realtime = x].realtime = x
BY DEF SnapshotType

(* An empty snapshot has no realtime section.                              *)
LEMMA EmptyRealtime == EmptySnapshot.realtime = None
BY DEF EmptySnapshot

(* Nothing runs when the process starts.                                   *)
LEMMA InitSafety == Init => SafetyInvariant
BY DEF Init, SafetyInvariant, FreshOK, IdleBeforeWrite, BmsTargetOnBus,
       LedTargetSupported

(* A step that is not of a control command has nothing to show.            *)
LEMMA OutsideControlSafety ==
  ASSUME FlowInvariant', caller' # "control"
  PROVE  SafetyInvariant'
BY DEF FlowInvariant, FlowOK, SafetyInvariant, FreshOK, IdleBeforeWrite,
       BmsTargetOnBus, LedTargetSupported

(* More boards seen, and nothing else.                                     *)
LEMMA QuietSafety ==
  ASSUME FlowInvariant, SafetyInvariant,
         UNCHANGED <<pc, caller, cache, snap, thorCanId, bmsCanId, cmd>>,
         seen \subseteq seen', cmd # None => requests'[cmd] = requests[cmd]
  PROVE  SafetyInvariant'
<1>1. pc = "write" => cmd # None
  BY DEF FlowInvariant, FlowOK
<1>2. SamePackage' => SamePackage
  BY DEF SamePackage
<1>3. pc = "write" => Action' = Action
  BY <1>1 DEF Action
<1>4. QED
  BY <1>2, <1>3 DEF SafetyInvariant, FreshOK, IdleBeforeWrite, BmsTargetOnBus,
     LedTargetSupported

(* A static item that could not be read ends a control command.            *)
LEMMA StaticFailedSafety ==
  ASSUME FlowInvariant, FlowInvariant',
         NEW next \in {"nodes", "info", "ids", "controller"}, StaticFailed(next)
  PROVE  SafetyInvariant'
BY OutsideControlSafety DEF StaticFailed, Continue, Reject, EndCommand

(* A candidate that failed teaches the command nothing.                    *)
LEMMA TrySafety ==
  ASSUME FlowInvariant, SafetyInvariant, NEW asked, TryNextCandidate(asked),
         ReadFrame
  PROVE  SafetyInvariant'
BY QuietSafety DEF TryNextCandidate, ReadFrame

(* The forced refresh of a command reads the board of now.                 *)
LEMMA StaticSafety ==
  ASSUME FlowInvariant, FlowInvariant', SafetyInvariant,
         \/ RefreshFirmware \/ RefreshCanNodes \/ RefreshRefloatInfo
         \/ RefreshRefloatIds
  PROVE  SafetyInvariant'
<1> SUFFICES ASSUME caller' = "control" PROVE SafetyInvariant'
  BY OutsideControlSafety
<1>1. cache \in CacheType /\ snap.realtime = None
  BY EmptyRealtime
  DEF RefreshFirmware, RefreshCanNodes, RefreshRefloatInfo, RefreshRefloatIds,
      FlowInvariant, TypeOK, FlowOK, PollSteps
<1>2. \A next \in {"nodes", "info", "ids", "controller"} :
        StaticFailed(next) => SafetyInvariant'
  BY StaticFailedSafety
<1>3. CASE RefreshFirmware
  <2>1. CASE StaticFailed("nodes")
    BY <1>2, <2>1
  <2>2. CASE Continue("nodes") /\ UNCHANGED snap
    BY <1>1, <1>3, <2>2
    DEF RefreshFirmware, Continue, ReadFrame, SafetyInvariant, FreshOK,
        IdleBeforeWrite, BmsTargetOnBus, LedTargetSupported, StaticSteps
  <2>3. QED
    BY <1>3, <2>1, <2>2 DEF RefreshFirmware
<1>4. CASE RefreshCanNodes
  <2>1. CASE StaticFailed("info")
    BY <1>2, <2>1
  <2>2. CASE /\ cache' = [cache EXCEPT !.nodes = board.nodes]
             /\ Continue("info")
             /\ UNCHANGED snap
    <3>1. board \in seen' /\ cache'.nodes = board.nodes
      BY <1>1, <1>4, <2>2, CacheFields DEF Continue, FlowInvariant, FlowOK, RefreshCanNodes
    <3>2. QED
      BY <1>1, <2>2, <3>1
      DEF Continue, SafetyInvariant, FreshOK, IdleBeforeWrite, BmsTargetOnBus,
          LedTargetSupported, StaticSteps
  <2>3. QED
    BY <1>4, <2>1, <2>2 DEF RefreshCanNodes
<1>5. CASE RefreshRefloatInfo
  <2>1. CASE StaticFailed("ids")
    BY <1>2, <2>1
  <2>2. CASE TryNextCandidate(board.refloats)
    BY <1>5, <2>2, TrySafety DEF RefreshRefloatInfo
  <2>3. CASE /\ cache' = [cache EXCEPT !.info = board.profile]
             /\ Continue("ids")
             /\ UNCHANGED snap
    <3>1. /\ board \in seen' /\ cache'.info = board.profile
          /\ cache'.nodes = cache.nodes
      BY <1>1, <1>5, <2>3, CacheFields
      DEF Continue, FlowInvariant, FlowOK, RefreshRefloatInfo
    <3>2. QED
      BY <1>1, <1>5, <2>3, <3>1
      DEF RefreshRefloatInfo, Continue, SafetyInvariant, FreshOK,
          IdleBeforeWrite, BmsTargetOnBus, LedTargetSupported, StaticSteps
  <2>4. QED
    BY <1>5, <2>1, <2>2, <2>3 DEF RefreshRefloatInfo
<1>6. CASE RefreshRefloatIds
  <2>1. CASE StaticFailed("controller")
    BY <1>2, <2>1
  <2>2. CASE TryNextCandidate(board.refloats)
    BY <1>6, <2>2, TrySafety DEF RefreshRefloatIds
  <2>3. CASE /\ cache' = [cache EXCEPT !.ids = board.profile]
             /\ Continue(IF caller = "connect" THEN "announce" ELSE "controller")
             /\ UNCHANGED snap
    <3>1. /\ board \in seen' /\ cache'.ids = board.profile
          /\ cache'.nodes = cache.nodes /\ cache'.info = cache.info
      BY <1>1, <1>6, <2>3, CacheFields
      DEF Continue, FlowInvariant, FlowOK, RefreshRefloatIds
    <3>2. QED
      BY <1>1, <1>6, <2>3, <3>1
      DEF RefreshRefloatIds, Continue, SafetyInvariant, FreshOK,
          IdleBeforeWrite, BmsTargetOnBus, LedTargetSupported, StaticSteps
  <2>4. QED
    BY <1>6, <2>1, <2>2, <2>3 DEF RefreshRefloatIds
<1>7. QED
  BY <1>3, <1>4, <1>5, <1>6

(* A section of the poll that says nothing about Refloat.                  *)
LEMMA SectionSafety ==
  ASSUME FlowInvariant, SafetyInvariant, pc \in {"controller", "bms"},
         NEW next \in {"bms", "realtime"}, Continue(next), ReadFrame,
         UNCHANGED cache, snap'.realtime = snap.realtime,
         snap.realtime # None => UNCHANGED thorCanId
  PROVE  SafetyInvariant'
BY DEF Continue, ReadFrame, SafetyInvariant, FreshOK, IdleBeforeWrite,
       BmsTargetOnBus, LedTargetSupported, StaticSteps

(* The poll of a command reads the board of now.                           *)
LEMMA PollSafety ==
  ASSUME FlowInvariant, FlowInvariant', SafetyInvariant,
         PollController \/ PollBms \/ PollRealtime \/ PollLights
  PROVE  SafetyInvariant'
<1> SUFFICES ASSUME caller' = "control" PROVE SafetyInvariant'
  BY OutsideControlSafety
<1>1. caller = "control" /\ board \in seen /\ snap \in SnapshotType
  BY DEF PollController, PollBms, PollRealtime, PollLights, TryNextCandidate,
         Continue, FlowInvariant, TypeOK, FlowOK
<1>2. CASE PollController
  <2>1. CASE TryNextCandidate(board.controllers)
    BY <1>2, <2>1, TrySafety DEF PollController
  <2>2. CASE ~TryNextCandidate(board.controllers)
    <3>1. snap.realtime = None
      BY <1>2, EmptyRealtime DEF PollController, FlowInvariant, FlowOK
    <3>2. snap'.realtime = snap.realtime
      BY <1>1, <1>2, <2>2 DEF PollController, SnapshotType
    <3>3. QED
      BY <1>2, <2>2, <3>1, <3>2, SectionSafety DEF PollController
  <2>3. QED
    BY <2>1, <2>2
<1>3. CASE PollBms
  <2>1. snap'.realtime = snap.realtime
    BY <1>1, <1>3 DEF PollBms, SnapshotType
  <2>2. QED
    BY <1>3, <2>1, SectionSafety DEF PollBms
<1>4. CASE PollRealtime
  <2>1. CASE TryNextCandidate(SureRealtimeNodes)
    BY <1>4, <2>1, TrySafety DEF PollRealtime
  <2>2. CASE /\ CandidateAnswers(board.refloats)
             /\ \E reading \in Readings :
                  Decoded(reading) /\ snap' = [snap EXCEPT !.realtime = reading]
             /\ Continue(IF LightsPolled THEN "lights" ELSE "polled")
             /\ UNCHANGED cache
    <3>1. PICK reading \in Readings :
            Decoded(reading) /\ snap' = [snap EXCEPT !.realtime = reading]
      BY <2>2
    <3>2. snap'.realtime = reading /\ thorCanId' \in board.refloats
      BY <1>1, <2>2, <3>1, SnapshotFields DEF CandidateAnswers
    <3>3. /\ reading.running = board.ride.running
          /\ cache.ids = board.profile =>
               /\ reading.speed = board.ride.speed
               /\ reading.alerts = board.ride.alerts
      BY <3>1 DEF Decoded
    <3>4. pc' \in {"lights", "polled"} /\ seen' = seen
      BY <2>2 DEF Continue
    <3>5. QED
      BY <1>1, <1>4, <2>2, <3>2, <3>3, <3>4
      DEF PollRealtime, SafetyInvariant, FreshOK, IdleBeforeWrite,
          BmsTargetOnBus, LedTargetSupported, StaticSteps
  <2>3. CASE /\ Continue(IF LightsPolled THEN "lights" ELSE "polled")
             /\ UNCHANGED <<snap, cache, thorCanId>>
    BY <1>1, <1>4, <2>3
    DEF PollRealtime, Continue, SafetyInvariant, FreshOK, IdleBeforeWrite,
        BmsTargetOnBus, LedTargetSupported, StaticSteps
  <2>4. QED
    BY <1>4, <2>1, <2>2, <2>3 DEF PollRealtime
<1>5. CASE PollLights
  <2>1. CASE TryNextCandidate(LightNodes)
    BY <1>5, <2>1, TrySafety DEF PollLights
  <2>2. CASE ~TryNextCandidate(LightNodes)
    <3>1. thorCanId' \in board.refloats \/ UNCHANGED thorCanId
      BY <1>5, <2>2 DEF PollLights, CandidateAnswers, LightNodes
    <3>2. QED
      BY <1>1, <1>5, <2>2, <3>1
      DEF PollLights, Continue, SafetyInvariant, FreshOK, IdleBeforeWrite,
          BmsTargetOnBus, LedTargetSupported, StaticSteps
  <2>3. QED
    BY <2>1, <2>2
<1>6. QED
  BY <1>2, <1>3, <1>4, <1>5

(* The validation of a control command turns what is known of the board    *)
(* into the three promises.                                                *)
LEMMA ValidateSafety ==
  ASSUME FlowInvariant, FlowInvariant', LedgerOK, SafetyInvariant,
         ValidateControl
  PROVE  SafetyInvariant'
<1> SUFFICES ASSUME caller' = "control" PROVE SafetyInvariant'
  BY OutsideControlSafety
<1>1. /\ Validated /\ Targeted
      /\ bmsCanId' = IF Action \in BmsActions THEN EffectiveBms ELSE bmsCanId
      /\ pc' = "write" /\ snap' = EmptySnapshot
      /\ UNCHANGED <<cmd, requests, cache, thorCanId, seen>>
  BY DEF ValidateControl, Continue, Reject, EndCommand
<1>2. /\ \E b \in seen : cache.nodes = b.nodes
      /\ \E b \in seen : cache.info = b.profile
      /\ \E b \in seen : cache.ids = b.profile
      /\ snap.realtime # None => \E b \in seen : thorCanId \in b.refloats
  BY DEF ValidateControl, SafetyInvariant, FreshOK, StaticSteps
<1>3. Action' = Action
  BY <1>1 DEF Action
<1>4. FreshOK'
  BY <1>1, <1>2, EmptyRealtime DEF FreshOK
<1>5. BmsTargetOnBus'
  BY <1>1, <1>2, <1>3 DEF BmsTargetOnBus, Targeted
<1>6. LedTargetSupported'
  BY <1>1, <1>2, <1>3 DEF LedTargetSupported, Targeted, Validated
<1>7. IdleBeforeWrite'
  <2> SUFFICES ASSUME RequireSafeState, SamePackage'
               PROVE  \E b \in seen : Idle(b)
    BY <1>1 DEF IdleBeforeWrite
  <2>1. /\ snap.realtime # None /\ ~snap.realtime.running
        /\ snap.realtime.speed = "slow" /\ ~snap.realtime.alerts
    BY <1>1 DEF Validated
  <2>2. PICK b \in seen :
          /\ snap.realtime.running = b.ride.running
          /\ cache.ids = b.profile =>
               /\ snap.realtime.speed = b.ride.speed
               /\ snap.realtime.alerts = b.ride.alerts
    BY <2>1 DEF ValidateControl, SafetyInvariant, FreshOK
  <2>3. cache.ids = b.profile
    BY <1>1, <1>2 DEF SamePackage
  <2>4. QED
    BY <2>1, <2>2, <2>3 DEF Idle
<1>8. QED
  BY <1>4, <1>5, <1>6, <1>7 DEF SafetyInvariant

(* A command that passes the cooldown starts from an empty snapshot.       *)
LEMMA CheckSafety ==
  ASSUME FlowInvariant, FlowInvariant', CheckCooldown
  PROVE  SafetyInvariant'
<1> SUFFICES ASSUME caller' = "control" PROVE SafetyInvariant'
  BY OutsideControlSafety
<1>1. pc' = "firmware" /\ snap'.realtime = None
  BY EmptyRealtime
  DEF CheckCooldown, Reject, EndCommand, FlowInvariant, FlowOK, PollSteps
<1>2. QED
  BY <1>1 DEF SafetyInvariant, FreshOK, IdleBeforeWrite, BmsTargetOnBus,
     LedTargetSupported, StaticSteps

(* The write learns nothing new of the board.                              *)
LEMMA WriteSafety ==
  ASSUME FlowInvariant, FlowInvariant', SafetyInvariant, SendWrite
  PROVE  SafetyInvariant'
<1> SUFFICES ASSUME caller' = "control" PROVE SafetyInvariant'
  BY OutsideControlSafety
<1>1. /\ pc = "write" /\ pc' = "report" /\ caller = "control"
      /\ UNCHANGED <<cache, snap, thorCanId, seen>>
  BY DEF SendWrite, Continue, Reject, EndCommand, canIds
<1>2. QED
  BY <1>1 DEF SafetyInvariant, FreshOK, IdleBeforeWrite, BmsTargetOnBus,
     LedTargetSupported, StaticSteps

(* The other thread, time and the board leave what was read alone.         *)
LEMMA BackgroundSafety ==
  ASSUME FlowInvariant, LedgerOK, SafetyInvariant,
         \/ \E action \in Payloads : Press(action)
         \/ \E c \in Ids : Redeliver(c)
         \/ PublishPending \/ Tick \/ ChangeBoard \/ UNCHANGED vars
  PROVE  SafetyInvariant'
<1>1. /\ UNCHANGED <<pc, caller, cache, snap, thorCanId, bmsCanId, cmd>>
      /\ seen \subseteq seen' \/ cmd = None
  BY DEF Press, Redeliver, OnMessage, PublishPending, Tick, ChangeBoard, vars,
         canIds, ledger
<1>2. cmd # None => requests'[cmd] = requests[cmd]
  <2>1. CASE \E action \in Payloads : Press(action)
    <3>1. PICK action \in Payloads : Press(action)
      BY <2>1
    <3>2. /\ cmd # None => cmd \in DOMAIN requests
          /\ requests \in Seq(Payloads)
      BY DEF LedgerOK, FlowInvariant, TypeOK
    <3>3. QED
      BY <3>1, <3>2, QueueElements DEF Press
  <2>2. CASE UNCHANGED requests
    BY <2>2, <1>1
  <2>3. QED
    BY <2>1, <2>2 DEF Redeliver, PublishPending, Tick, ChangeBoard, vars
<1>3. CASE seen \subseteq seen'
  BY <1>1, <1>2, <1>3, QuietSafety
<1>4. CASE cmd = None
  BY <1>1, <1>4 DEF FlowInvariant, FlowOK, SafetyInvariant, FreshOK,
     IdleBeforeWrite, BmsTargetOnBus, LedTargetSupported
<1>5. QED
  BY <1>1, <1>3, <1>4

(* Every step keeps what the running command knows of the board fresh.     *)
LEMMA NextSafety ==
  FlowInvariant /\ FlowInvariant' /\ LedgerOK /\ SafetyInvariant /\ [Next]_vars
    => SafetyInvariant'
<1> SUFFICES ASSUME FlowInvariant, FlowInvariant', LedgerOK, SafetyInvariant,
                    [Next]_vars
             PROVE  SafetyInvariant'
  OBVIOUS
<1>1. CASE \/ Connect \/ Announce \/ BeginCycle \/ EndDrain
           \/ PublishSnapshot \/ CycleFailed \/ Dequeue \/ ReportOk \/ Restart
  <2>1. caller' # "control"
    BY <1>1 DEF Connect, Announce, BeginCycle, EndDrain, PublishSnapshot,
       CycleFailed, Dequeue, ReportOk, EndCommand, Restart, Continue,
       FlowInvariant, FlowOK
  <2>2. QED
    BY <2>1, OutsideControlSafety
<1>2. QED
  BY <1>1, StaticSafety, PollSafety, CheckSafety, ValidateSafety, WriteSafety,
     BackgroundSafety
  DEF Next, MainThread

(* Whenever a write is about to be sent, all that was verified for it was  *)
(* read from the board after the command left the queue.                   *)
THEOREM SafetyTheorem == Spec => []SafetyInvariant
BY InitSafety, NextSafety, FlowTheorem, LedgerInvariance, PTL DEF Spec

(* No command is written unless the board was idle at some instant after   *)
(* the command was dequeued, for any board, cooldown, queue and bounds.    *)
THEOREM IdleTheorem == Spec => []IdleBeforeWrite
<1>1. SafetyInvariant => IdleBeforeWrite
  BY DEF SafetyInvariant
<1>2. QED
  BY <1>1, SafetyTheorem, PTL

(* A BMS command goes to a CAN id that was on the bus while it ran.        *)
THEOREM BmsTargetTheorem == Spec => []BmsTargetOnBus
<1>1. SafetyInvariant => BmsTargetOnBus
  BY DEF SafetyInvariant
<1>2. QED
  BY <1>1, SafetyTheorem, PTL

(* An LED command goes out only for a package that had the stable lights   *)
(* profile while it ran, to a node that ran Refloat.                       *)
THEOREM LedTargetTheorem == Spec => []LedTargetSupported
<1>1. SafetyInvariant => LedTargetSupported
  BY DEF SafetyInvariant
<1>2. QED
  BY <1>1, SafetyTheorem, PTL

-----------------------------------------------------------------------------
(* The cooldown.                                                           *)

(* A rejected command stays rejected, and its payload is what it was.      *)
LEMMA RejectedStays ==
  ASSUME FlowInvariant, LedgerOK, [Next]_vars, NEW c \in Ids,
         outcome[c] = "rejected"
  PROVE  outcome'[c] = "rejected" /\ requests'[c] = requests[c]
<1>1. /\ c \in DOMAIN requests /\ requests \in Seq(Payloads)
      /\ \A d : outcome' = [outcome EXCEPT ![d] = "rejected"] => outcome'[c] = "rejected"
      /\ outcome \in [Ids -> {"none", "ok", "rejected"}]
  BY DEF LedgerOK, FlowInvariant, TypeOK
<1>2. Reject => outcome'[c] = "rejected"
  BY <1>1 DEF Reject, EndCommand, PublishStatus
<1>3. CASE \E action \in Payloads : Press(action)
  <2>1. PICK action \in Payloads : Press(action)
    BY <1>3
  <2>2. requests'[c] = requests[c]
    BY <1>1, <2>1, QueueElements DEF Press
  <2>3. outcome'[c] = "rejected"
    BY <1>1, <2>1 DEF Press, OnMessage, EnqueueControlCommand, PublishStatus
  <2>4. QED
    BY <2>2, <2>3
<1>4. CASE PublishPending
  <2>1. pending.status \in {"queued", "rejected"}
    BY <1>4 DEF PublishPending, LedgerOK, FlowInvariant, TypeOK, Statuses
  <2>2. QED
    BY <1>1, <1>4, <2>1 DEF PublishPending, PublishStatus
<1>5. CASE ReportOk
  <2>1. outcome[cmd] = "none" /\ outcome' = [outcome EXCEPT ![cmd] = "ok"]
    BY <1>5 DEF ReportOk, EndCommand, PublishStatus, LedgerOK, FlowInvariant, FlowOK
  <2>2. QED
    BY <1>1, <1>5, <2>1 DEF ReportOk
<1>6. CASE \/ Connect \/ Announce \/ BeginCycle \/ EndDrain \/ PublishSnapshot
           \/ CycleFailed \/ Dequeue \/ Tick \/ ChangeBoard \/ Restart
           \/ UNCHANGED vars \/ \E d \in Ids : Redeliver(d)
  BY <1>6 DEF Connect, Announce, BeginCycle, EndDrain, PublishSnapshot,
     CycleFailed, Dequeue, Tick, ChangeBoard, Restart, vars, Redeliver,
     OnMessage, Ignored, Continue, ledger
<1>7. CASE \/ RefreshFirmware \/ RefreshCanNodes \/ RefreshRefloatInfo
           \/ RefreshRefloatIds \/ PollController \/ PollBms \/ PollRealtime
           \/ PollLights \/ CheckCooldown \/ ValidateControl \/ SendWrite
  <2>1. UNCHANGED requests
    BY <1>7 DEF RefreshFirmware, RefreshCanNodes, RefreshRefloatInfo,
       RefreshRefloatIds, PollController, PollBms, PollRealtime, PollLights,
       CheckCooldown, ValidateControl, SendWrite, ReadFrame
  <2>2. \A next : Continue(next) \/ StaticFailed(next) => UNCHANGED outcome \/ Reject
    BY DEF Continue, StaticFailed
  <2>3. \A asked : TryNextCandidate(asked) => UNCHANGED outcome
    BY DEF TryNextCandidate
  <2>4. UNCHANGED outcome \/ Reject
    BY <1>7, <2>2, <2>3 DEF RefreshFirmware, RefreshCanNodes,
       RefreshRefloatInfo, RefreshRefloatIds, PollController, PollBms,
       PollRealtime, PollLights, CheckCooldown, ValidateControl, SendWrite
  <2>5. QED
    BY <1>2, <2>1, <2>4
<1>8. QED
  BY <1>3, <1>4, <1>5, <1>6, <1>7 DEF Next, MainThread

(* An LED frame whose answer did not come leaves a rejected command, which *)
(* is what the next write may follow at once.                              *)
LEMMA WriteCooldown ==
  ASSUME FlowInvariant, LedgerOK, CooldownOK, SendWrite, Next
  PROVE  CooldownOK'
<1>1. /\ age \in Nat /\ cmd \in Ids /\ pc = "write" /\ caller = "control"
      /\ UNCHANGED <<age, sinceOk, requests>>
  BY ConfigAssumption DEF SendWrite, FlowInvariant, TypeOK, FlowOK
<1>2. caller' = "control" => caller = "control"
  BY <1>1
<1>3. CASE pc' = "report"
  BY <1>1, <1>2, <1>3 DEF CooldownOK
<1>4. CASE /\ FrameSent /\ Reject
           /\ Action \in RefloatLedControlActions
  <2>1. lastWritten' = cmd /\ outcome'[cmd] = "rejected"
    BY <1>1, <1>4 DEF FrameSent, Reject, EndCommand, PublishStatus,
       FlowInvariant, TypeOK
  <2>2. Unanswered(lastWritten)'
    BY <1>1, <1>4, <2>1 DEF Unanswered, Action
  <2>3. QED
    BY <1>1, <1>2, <2>2 DEF CooldownOK
<1>5. CASE Reject /\ UNCHANGED <<sinceWrite, lastWritten>>
  <2>1. Unanswered(lastWritten) => Unanswered(lastWritten)'
    BY <1>5, RejectedStays DEF Unanswered
  <2>2. QED
    BY <1>1, <1>2, <1>5, <2>1 DEF CooldownOK
<1>6. QED
  BY <1>3, <1>4, <1>5 DEF SendWrite, Continue

(* Every step keeps the clock of the cooldown, that of the last success    *)
(* and that of the last frame related.                                     *)
LEMMA CooldownStep ==
  FlowInvariant /\ LedgerOK /\ CooldownOK /\ [Next]_vars => CooldownOK'
<1> SUFFICES ASSUME FlowInvariant, LedgerOK, CooldownOK, [Next]_vars
             PROVE  CooldownOK'
  OBVIOUS
<1>1. /\ age \in 0 .. Cooldown /\ sinceWrite \in 0 .. Cooldown
      /\ Cooldown \in Nat
  BY ConfigAssumption DEF FlowInvariant, TypeOK
<1>2. lastWritten' = lastWritten /\ Unanswered(lastWritten) => Unanswered(lastWritten)'
  BY RejectedStays DEF Unanswered
<1>3. CASE Tick
  BY <1>1, <1>2, <1>3 DEF Tick, CooldownOK
<1>4. CASE Restart \/ ReportOk
  BY <1>1, <1>4 DEF Restart, ReportOk, StartCooldown, EndCommand, CooldownOK
<1>5. CASE CheckCooldown
  BY <1>1, <1>2, <1>5 DEF CheckCooldown, Reject, EndCommand, ReadFrame, clock,
     CooldownOK
<1>6. CASE SendWrite
  BY <1>6, WriteCooldown DEF Next, MainThread
<1>7. CASE ~(Tick \/ Restart \/ ReportOk \/ CheckCooldown \/ SendWrite)
  <2>1. UNCHANGED clock
    BY <1>7 DEF Next, MainThread, Connect, RefreshFirmware, RefreshCanNodes,
       RefreshRefloatInfo, RefreshRefloatIds, Announce, PollController,
       PollBms, PollRealtime, PollLights, BeginCycle, EndDrain,
       PublishSnapshot, CycleFailed, Dequeue, ValidateControl,
       Press, Redeliver, OnMessage, PublishPending, ChangeBoard, ReadFrame, vars
  <2>2. pc = "report" => pc' = "report"
    BY <1>7 DEF Next, MainThread, Connect, RefreshFirmware, RefreshCanNodes,
       RefreshRefloatInfo, RefreshRefloatIds, Announce, PollController,
       PollBms, PollRealtime, PollLights, BeginCycle, EndDrain,
       PublishSnapshot, CycleFailed, Dequeue, ValidateControl,
       Press, Redeliver, OnMessage, PublishPending, ChangeBoard, vars
  <2>3. caller' = "control" => caller = "control"
    <3>1. \A next : Continue(next) \/ StaticFailed(next) =>
            (caller' = "control" => caller = "control")
      BY DEF StaticFailed, Continue, Reject, EndCommand
    <3>2. \A asked : TryNextCandidate(asked) => caller' = caller
      BY DEF TryNextCandidate
    <3>3. CASE \/ RefreshFirmware \/ RefreshCanNodes \/ RefreshRefloatInfo
               \/ RefreshRefloatIds \/ PollController \/ PollBms
               \/ PollRealtime \/ PollLights
      BY <3>1, <3>2, <3>3 DEF RefreshFirmware, RefreshCanNodes,
         RefreshRefloatInfo, RefreshRefloatIds, PollController, PollBms,
         PollRealtime, PollLights
    <3>4. CASE ~(\/ RefreshFirmware \/ RefreshCanNodes \/ RefreshRefloatInfo
                 \/ RefreshRefloatIds \/ PollController \/ PollBms
                 \/ PollRealtime \/ PollLights)
      BY <1>7, <3>4 DEF Next, MainThread, Connect, Announce, BeginCycle,
         EndDrain, PublishSnapshot, CycleFailed, Dequeue, ValidateControl,
         Continue, Reject, EndCommand, Press, Redeliver, OnMessage,
         PublishPending, ChangeBoard, vars
    <3>5. QED
      BY <3>3, <3>4
  <2>4. QED
    BY <1>2, <2>1, <2>2, <2>3 DEF CooldownOK, clock
<1>8. QED
  BY <1>3, <1>4, <1>5, <1>6, <1>7

(* Within one life of the process no command is written before the         *)
(* cooldown has passed since the last success, nor since the last frame,   *)
(* unless that was of an LED command rejected for want of an answer; for   *)
(* every cooldown.                                                         *)
THEOREM CooldownTheorem == Spec => []CooldownHeld
<1>1. Init => CooldownOK
  BY ConfigAssumption DEF Init, CooldownOK
<1>2. FlowInvariant /\ CooldownOK => CooldownHeld
  BY ConfigAssumption DEF FlowInvariant, TypeOK, FlowOK, CooldownOK, CooldownHeld
<1>3. QED
  BY <1>1, <1>2, CooldownStep, FlowTheorem, LedgerInvariance, PTL DEF Spec
=============================================================================
