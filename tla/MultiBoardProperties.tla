------------------------ MODULE MultiBoardProperties ------------------------
(***************************************************************************)
(* What the fleet promises about devices, boards and their addresses.      *)
(***************************************************************************)
EXTENDS MultiBoard

(* Every variable keeps its type, and the poll list is the registry.       *)
TypeOK ==
  /\ place \in Placements
  /\ phase \in {"start", "probe", "add", "poll", "sleep"}
  /\ boards \in Seq(Endpoints)
  /\ runtime \in [Endpoints -> Runtime \union {None}]
  /\ toProbe \subseteq Scanned
  /\ answers \subseteq Answer
  /\ known \subseteq Identities
  /\ turn \in Nat \ {0}
  /\ rounds \in 0 .. ScanEvery
  /\ \A i \in DOMAIN boards : boards[i] \in Registered

(* Two registered boards never share a device id, and with it their topics *)
(* and their MQTT client id ("unique MQTT client IDs", README 111).        *)
DeviceIdsUnique ==
  \A e, f \in Registered :
    e # f => runtime[e].device # runtime[f].device

(* A board that has a uuid is shown by one device at a time, whatever      *)
(* addresses it answers at (identity_key, _known_identity_keys).           *)
OneDevicePerBoard ==
  \A e, f \in Registered :
    runtime[e].shows = runtime[f].shows =>
      e = f \/ runtime[e].shows \in Anonymous \union {None}

(* The scans, polls and sessions hidden, the fleet keeps what              *)
(* DeviceRegistry promises: a device belongs to one board for good, even   *)
(* if boards come and go and answer at several addresses.                  *)
Showing == {e \in Registered : runtime[e].shows # None}

Registry ==
  INSTANCE DeviceRegistry WITH
    Devices <- Identities \union {PrimaryDevice},
    device <- [e \in Registered |-> runtime[e].device],
    shows <- [e \in Showing |-> runtime[e].shows]

RegistrySpec == Registry!RegistrySpec

(* What the fleet takes from the scanner is what ScanCall promises: each   *)
(* probe is heard of at most once, and what is left when the probes have   *)
(* ended is one answer of each device.                                     *)
AsHeard(kept) == {[at |-> a.endpoint, board |-> a.board] : a \in kept}

Scan ==
  INSTANCE ScanCall WITH
    Answers <- [at : Scanned, board : Boards],
    status <- IF phase = "probe" THEN "running" ELSE "returned",
    heard <- AsHeard(answers), returned <- {}

TakesScanCall ==
  [][phase = "probe" =>
       IF phase' = "probe"
         THEN [\E a \in [at : Scanned, board : Boards] : Scan!Hear(a)]_(Scan!callVars)
         ELSE Scan!OneOfEach(AsHeard(answers'), AsHeard(answers))]_vars

(* Home Assistant sees the board: its device is announced and online, with *)
(* the board's own telemetry.                                              *)
Exposed(b) ==
  \E e \in Registered :
    /\ runtime[e].session = "up"
    /\ runtime[e].announced
    /\ runtime[e].online
    /\ runtime[e].shows = b

(* "exposes each responding VESC TCP bridge as an additional Home Assistant *)
(* MQTT device" (README 95): a board that stays at an address the scan     *)
(* covers is exposed from some time on.                                    *)
BoardsExposed ==
  \A p \in Placements :
    <>[](place = p) =>
      \A b \in {p[e] : e \in Scanned \ Lossy} \ {None} : <>[]Exposed(b)

-----------------------------------------------------------------------------
(* Conditions on the network.                                              *)

(* Every endpoint only ever leads to one board: static leases.             *)
StableAddresses ==
  \A p, q \in Placements : \A e \in Endpoints :
    p[e] = q[e] \/ p[e] = None \/ q[e] = None

(* The configured board never misses a firmware query.                     *)
PrimaryAnswers == Primary \notin Lossy /\ \A p \in Placements : p[Primary] # None

-----------------------------------------------------------------------------
(* The parts of the inductive invariant of MultiBoard_proofs: with stable   *)
(* addresses, what the registry and the answers say of an endpoint is what  *)
(* is there.                                                               *)

Home(e) == {p[e] : p \in Placements} \ {None}

EntryOK(e, r) ==
  /\ r.shows \in Home(e) \union {None}
  /\ r.firmware \in Home(e) \union {None}
  /\ IF e = Primary
       THEN /\ r.device = PrimaryDevice
            /\ PrimaryAnswers => r.firmware # None
       ELSE /\ r.firmware # None
            /\ r.device = Identity(e, r.firmware)

RegistryOK ==
  /\ phase = "start" => Registered = {}
  /\ \A e \in Registered : EntryOK(e, runtime[e])

AnswersOK == \A a \in answers : a.board \in Home(a.endpoint)

(* The identity of e enters the comparison of scan_once for certain.       *)
Compared(e) == e \in Registered /\ (e # Primary \/ PrimaryAnswers)

KnownOK ==
  phase = "add" =>
    \A e \in Endpoints :
      Compared(e) => Identity(e, runtime[e].firmware) \in known

IdentitiesDistinct ==
  \A e, f \in Endpoints :
    Compared(e) /\ Compared(f) /\ e # f =>
      Identity(e, runtime[e].firmware) # Identity(f, runtime[f].firmware)
=============================================================================
