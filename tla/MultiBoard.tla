----------------------------- MODULE MultiBoard -----------------------------
(***************************************************************************)
(* The fleet: MultiBoardBridge (multibridge.py) with the scan of           *)
(* scanner.py.  One main thread connects the configured board, scans the   *)
(* network for others, registers what it finds and polls all registered    *)
(* boards in turn; a scan probes its endpoints concurrently.  Boards come, *)
(* go and change their addresses between any two steps.                    *)
(*                                                                         *)
(* A board's own loop is OnewheelBridge; here one cycle of it is one step. *)
(* An endpoint stands for a host and a port; the order of the numbers is   *)
(* that of the "host:port" strings.  A failed connect of the configured    *)
(* board ends the process (main), so the model starts with its success.    *)
(***************************************************************************)
EXTENDS Naturals, Sequences, FiniteSets

CONSTANTS
  Endpoints,        \* host:port pairs, as numbers
  Primary,          \* the endpoint of the [vesc] section
  Scanned,          \* the endpoints a scan probes
  Lossy,            \* endpoints whose calls may fail although a board is there
  Boards,           \* physical boards
  Anonymous,        \* boards whose firmware reports no uuid
  Placements,       \* which board answers at which endpoint
  ConnectOutcomes,  \* what a broker connect of a discovered board may do
  RefreshEvery,     \* max(vesc.static_refresh_every_polls, 1)
  ScanEvery,        \* bound: rounds of polls until a scan is due
  None

Outcomes == {"up", "late", "refused"}

ASSUME EndpointAssumption ==
  /\ Endpoints \subseteq Nat
  /\ Primary \in Endpoints
  /\ Scanned \subseteq Endpoints
  /\ Lossy \subseteq Endpoints

ASSUME PlacementAssumption ==
  /\ None \notin Boards
  /\ Placements \subseteq [Endpoints -> Boards \union {None}]
  /\ Placements # {}

ASSUME FleetAssumption ==
  /\ ConnectOutcomes \subseteq Outcomes
  /\ RefreshEvery \in Nat \ {0}
  /\ ScanEvery \in Nat

VARIABLES
  place,    \* the network: an element of Placements
  phase,    \* what the main thread is doing
  boards,   \* the keys of _boards, in the order of registration
  runtime,  \* _boards
  toProbe,  \* endpoints the running scan has not probed yet
  answers,  \* the answers to its probes
  known,    \* known_identities of scan_once
  turn,     \* position in boards of the next board to poll
  rounds    \* rounds of polls since the last scan

vars == <<place, phase, boards, runtime, toProbe, answers, known, turn, rounds>>

Answer == [endpoint : Endpoints, board : Boards]

(* identity_key; board_id_for_endpoint distinguishes the same cases.       *)
Identity(e, b) == IF b \in Anonymous THEN <<"endpoint", e>> ELSE <<"uuid", b>>
Identities == {Identity(e, b) : e \in Endpoints, b \in Boards}
PrimaryDevice == <<"configured", Primary>>

(* A registered board: its device id, which is also in its topics and its   *)
(* MQTT client id, the cached firmware, the session with the broker,       *)
(* _discovery_published, the last availability published, the board whose  *)
(* telemetry was published last and _poll_count modulo RefreshEvery.       *)
Runtime ==
  [device : Identities \union {PrimaryDevice}, firmware : Boards \union {None},
   session : Outcomes, announced : BOOLEAN, online : BOOLEAN,
   shows : Boards \union {None}, polls : 0 .. RefreshEvery - 1]

ASSUME NoneAssumption == None \notin Runtime

Registered == {e \in Endpoints : runtime[e] # None}

(* What get_fw_version may leave in the cache that held old.               *)
FirmwareRead(e, old) ==
  {b \in {place[e], old} :
     \/ b = place[e] /\ b # None
     \/ b = old /\ (place[e] = None \/ e \in Lossy)}

Init ==
  /\ place \in Placements
  /\ phase = "start"
  /\ boards = <<>>
  /\ runtime = [e \in Endpoints |-> None]
  /\ toProbe = {} /\ answers = {} /\ known = {}
  /\ turn = 1 /\ rounds = 0

-----------------------------------------------------------------------------
(* _add_board: the board is registered before its bridge connects; a       *)
(* connect that raises leaves it registered, and nothing connects it again.*)
(* Once the session is up, connect() refreshes the firmware and publishes  *)
(* the discovery payloads.                                                 *)
Register(e, device, firmware, outcome) ==
  \E read \in (IF outcome = "up" THEN FirmwareRead(e, firmware) ELSE {firmware}) :
    /\ boards' = Append(boards, e)
    /\ runtime' = [runtime EXCEPT ![e] =
         [device |-> device, firmware |-> read, session |-> outcome,
          announced |-> (outcome = "up"), online |-> FALSE, shows |-> None,
          polls |-> 0]]

StartScan == phase' = "probe" /\ toProbe' = Scanned /\ rounds' = 0

ConnectPrimary ==
  /\ phase = "start"
  /\ Register(Primary, PrimaryDevice, None, "up")
  /\ StartScan
  /\ UNCHANGED <<place, answers, known, turn>>

-----------------------------------------------------------------------------
(* scan_once                                                               *)

(* The probes run in a pool of threads, so they end in any order.          *)
Probe(e) ==
  /\ phase = "probe"
  /\ e \in toProbe
  /\ toProbe' = toProbe \ {e}
  /\ \/ /\ place[e] # None
        /\ answers' = answers \union {[endpoint |-> e, board |-> place[e]]}
     \/ /\ place[e] = None \/ e \in Lossy
        /\ UNCHANGED answers
  /\ UNCHANGED <<place, phase, boards, runtime, known, turn, rounds>>

AnswerIdentity(a) == Identity(a.endpoint, a.board)

(* as_completed: the first answer with an identity is kept, whichever.     *)
OnePerIdentity(kept) ==
  /\ kept \subseteq answers
  /\ \A a \in answers : \E k \in kept : AnswerIdentity(k) = AnswerIdentity(a)
  /\ \A k1, k2 \in kept : AnswerIdentity(k1) = AnswerIdentity(k2) => k1 = k2

(* Mutant: only the keys of the registry are compared.                     *)
NothingKnown == {}

(* Mutant: the configured board is not compared.                           *)
DiscoveredIdentities ==
  {Identity(e, runtime[e].firmware) :
     e \in {f \in Registered \ {Primary} : runtime[f].firmware # None}}

(* Mutant: a runtime without a cached firmware is not left out.            *)
UncheckedIdentities == {Identity(e, runtime[e].firmware) : e \in Registered}

KnownIdentities ==
  {Identity(e, runtime[e].firmware) :
     e \in {f \in Registered : runtime[f].firmware # None}}

EndProbes ==
  /\ phase = "probe"
  /\ toProbe = {}
  /\ \E kept \in SUBSET answers : OnePerIdentity(kept) /\ answers' = kept
  /\ known' = KnownIdentities
  /\ phase' = "add"
  /\ UNCHANGED <<place, boards, runtime, toProbe, turn, rounds>>

(* The answers are gone through in the order of their keys.                *)
NextAnswer(a) ==
  /\ phase = "add"
  /\ a \in answers
  /\ \A other \in answers : a.endpoint <= other.endpoint

AlreadyKnown(a) ==
  \/ a.endpoint = Primary
  \/ a.endpoint \in Registered
  \/ AnswerIdentity(a) \in known

SkipAnswer(a) ==
  /\ NextAnswer(a)
  /\ AlreadyKnown(a)
  /\ answers' = answers \ {a}
  /\ UNCHANGED <<place, phase, boards, runtime, toProbe, known, turn, rounds>>

(* A connect that raises ends the scan: the other answers are dropped.     *)
AddBoard(a) ==
  /\ NextAnswer(a)
  /\ ~AlreadyKnown(a)
  /\ \E outcome \in ConnectOutcomes :
       /\ Register(a.endpoint, AnswerIdentity(a), a.board, outcome)
       /\ IF outcome = "up"
            THEN /\ answers' = answers \ {a}
                 /\ known' = known \union {AnswerIdentity(a)}
                 /\ UNCHANGED <<phase, turn>>
            ELSE /\ answers' = {} /\ known' = {}
                 /\ phase' = "poll" /\ turn' = 1
  /\ UNCHANGED <<place, toProbe, rounds>>

EndScan ==
  /\ phase = "add"
  /\ answers = {}
  /\ known' = {}
  /\ phase' = "poll"
  /\ turn' = 1
  /\ UNCHANGED <<place, boards, runtime, toProbe, answers, rounds>>

-----------------------------------------------------------------------------
(* poll_once: one poll_cycle of each registered board.                     *)

(* Mutant: discovery is published by connect() only.                       *)
AnnouncedByConnect(r) == r.announced

AnnouncedByPoll(r) == TRUE

PollAnswered(e, r, read, polls) ==
  /\ place[e] # None
  /\ runtime' = [runtime EXCEPT ![e] =
       [r EXCEPT !.firmware = read, !.announced = AnnouncedByPoll(r),
                 !.online = TRUE, !.shows = place[e], !.polls = polls]]

PollFailed(e, r, read, polls) ==
  /\ place[e] = None \/ e \in Lossy
  /\ runtime' = [runtime EXCEPT ![e] =
       [r EXCEPT !.firmware = read, !.online = FALSE, !.polls = polls]]

PollBoard ==
  /\ phase = "poll"
  /\ turn \in DOMAIN boards
  /\ LET e == boards[turn]
         r == runtime[e]
         polls == (r.polls + 1) % RefreshEvery
     IN  \E read \in (IF polls = 0 THEN FirmwareRead(e, r.firmware)
                      ELSE {r.firmware}) :
           PollAnswered(e, r, read, polls) \/ PollFailed(e, r, read, polls)
  /\ turn' = turn + 1
  /\ UNCHANGED <<place, phase, boards, toProbe, answers, known, rounds>>

EndRound ==
  /\ phase = "poll"
  /\ turn \notin DOMAIN boards
  /\ phase' = "sleep"
  /\ turn' = 1
  /\ UNCHANGED <<place, boards, runtime, toProbe, answers, known, rounds>>

(* _maybe_scan: how many rounds fit into the scan interval depends on how   *)
(* long the polls take.                                                    *)
Wake ==
  /\ phase = "sleep"
  /\ \/ StartScan
     \/ /\ rounds < ScanEvery
        /\ rounds' = rounds + 1
        /\ phase' = "poll"
        /\ UNCHANGED toProbe
  /\ UNCHANGED <<place, boards, runtime, answers, known, turn>>

-----------------------------------------------------------------------------
(* The environment.                                                        *)

(* A connect that timed out left paho's thread running: it goes on trying, *)
(* and what was published in the meantime is sent then.                    *)
SessionEstablished(e) ==
  /\ e \in Registered
  /\ runtime[e].session = "late"
  /\ runtime' = [runtime EXCEPT ![e].session = "up"]
  /\ UNCHANGED <<place, phase, boards, toProbe, answers, known, turn, rounds>>

MoveBoards ==
  /\ place' \in Placements \ {place}
  /\ UNCHANGED <<phase, boards, runtime, toProbe, answers, known, turn, rounds>>

MainThread ==
  \/ ConnectPrimary
  \/ EndProbes
  \/ \E a \in answers : SkipAnswer(a) \/ AddBoard(a)
  \/ EndScan
  \/ PollBoard \/ EndRound \/ Wake

Next ==
  \/ MainThread
  \/ \E e \in Endpoints : Probe(e)
  \/ \E e \in Endpoints : SessionEstablished(e)
  \/ MoveBoards

Spec == Init /\ [][Next]_vars

(* The main thread and the probes go on (every call has a timeout), and    *)
(* the broker accepts in the end a connection that paho keeps trying.      *)
FairSpec ==
  /\ Spec
  /\ WF_vars(MainThread)
  /\ \A e \in Endpoints : WF_vars(Probe(e)) /\ WF_vars(SessionEstablished(e))
=============================================================================
