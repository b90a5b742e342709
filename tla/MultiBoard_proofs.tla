------------------------- MODULE MultiBoard_proofs -------------------------
(***************************************************************************)
(* Proofs about MultiBoard for every network, registry and broker.         *)
(***************************************************************************)
EXTENDS MultiBoardProperties, TLAPS

FleetInvariant ==
  /\ RegistryOK
  /\ AnswersOK
  /\ KnownOK
  /\ IdentitiesDistinct

-----------------------------------------------------------------------------
(* Types.                                                                  *)

(* A board in the network is one of Boards.                                *)
LEMMA PlaceType ==
  ASSUME TypeOK, NEW e \in Endpoints
  PROVE  place[e] \in Boards \union {None}
BY PlacementAssumption DEF TypeOK

(* A firmware query leaves a board or what was cached before.              *)
LEMMA FirmwareReadType ==
  ASSUME TypeOK, NEW e \in Endpoints, NEW old \in Boards \union {None},
         NEW read \in FirmwareRead(e, old)
  PROVE  read \in Boards \union {None}
BY PlaceType DEF FirmwareRead

(* What an entry of the registry may become.                               *)
LEMMA EntryType ==
  ASSUME NEW r \in Runtime, NEW b \in Boards \union {None},
         NEW n \in 0 .. RefreshEvery - 1
  PROVE  /\ \A s \in Boards :
              [r EXCEPT !.firmware = b, !.announced = TRUE, !.online = TRUE,
                        !.shows = s, !.polls = n] \in Runtime
         /\ [r EXCEPT !.firmware = b, !.online = FALSE, !.polls = n] \in Runtime
         /\ [r EXCEPT !.session = "up"] \in Runtime
BY DEF Runtime, Outcomes

(* Changing an entry keeps every registered endpoint registered.           *)
LEMMA SetEntry ==
  ASSUME NEW e \in Endpoints, NEW r \in Runtime,
         runtime \in [Endpoints -> Runtime \union {None}],
         runtime' = [runtime EXCEPT ![e] = r]
  PROVE  /\ runtime' \in [Endpoints -> Runtime \union {None}]
         /\ Registered' = Registered \union {e}
         /\ runtime'[e] = r
         /\ \A f \in Endpoints \ {e} : runtime'[f] = runtime[f]
BY NoneAssumption DEF Registered

(* Registering a board keeps the registry and the poll list typed.         *)
LEMMA RegisterType ==
  ASSUME TypeOK, NEW e \in Endpoints, NEW d \in Identities \union {PrimaryDevice},
         NEW b \in Boards \union {None}, NEW o \in Outcomes, Register(e, d, b, o)
  PROVE  /\ boards' \in Seq(Endpoints)
         /\ runtime' \in [Endpoints -> Runtime \union {None}]
         /\ \A i \in DOMAIN boards' : boards'[i] \in Registered'
<1>1. PICK read \in Boards \union {None} :
        runtime' = [runtime EXCEPT ![e] =
          [device |-> d, firmware |-> read, session |-> o,
           announced |-> (o = "up"), online |-> FALSE, shows |-> None,
           polls |-> 0]]
  BY FirmwareReadType DEF Register
<1>2. [device |-> d, firmware |-> read, session |-> o,
       announced |-> (o = "up"), online |-> FALSE, shows |-> None,
       polls |-> 0] \in Runtime
  BY FleetAssumption DEF Runtime
<1>3. /\ runtime' \in [Endpoints -> Runtime \union {None}]
      /\ Registered' = Registered \union {e}
  BY <1>1, <1>2, SetEntry DEF TypeOK
<1>4. boards' = Append(boards, e) /\ boards \in Seq(Endpoints)
  BY DEF Register, TypeOK
<1>5. boards' \in Seq(Endpoints)
  BY <1>4
<1>6. ASSUME NEW i \in DOMAIN boards' PROVE boards'[i] \in Registered'
  <2>1. boards'[i] = e \/ (i \in DOMAIN boards /\ boards'[i] = boards[i])
    BY <1>4, <1>6
  <2> QED
    BY <2>1, <1>3 DEF TypeOK
<1> QED
  BY <1>3, <1>5, <1>6

(* Poll and SessionEstablished replace one entry by another.               *)
LEMMA ReplaceType ==
  ASSUME TypeOK, NEW e \in Registered, NEW r \in Runtime,
         runtime' = [runtime EXCEPT ![e] = r], UNCHANGED boards
  PROVE  /\ runtime' \in [Endpoints -> Runtime \union {None}]
         /\ \A i \in DOMAIN boards' : boards'[i] \in Registered'
<1>1. e \in Endpoints
  BY DEF Registered
<1>2. /\ runtime' \in [Endpoints -> Runtime \union {None}]
      /\ Registered' = Registered \union {e}
  BY <1>1, SetEntry DEF TypeOK
<1> QED
  BY <1>2 DEF TypeOK

(* The entry that a poll works on, and the counter it leaves.              *)
LEMMA PollFacts ==
  ASSUME TypeOK, PollBoard
  PROVE  \E e \in Registered : \E read \in Boards \union {None} :
         \E polls \in 0 .. RefreshEvery - 1 :
           /\ runtime[e] \in Runtime
           /\ read = runtime[e].firmware \/ read \in FirmwareRead(e, runtime[e].firmware)
           /\ PollAnswered(e, runtime[e], read, polls)
              \/ PollFailed(e, runtime[e], read, polls)
<1> DEFINE e == boards[turn]
           polls == (runtime[e].polls + 1) % RefreshEvery
<1>1. e \in Registered /\ e \in Endpoints
  BY DEF PollBoard, TypeOK, Registered
<1>2. runtime[e] \in Runtime
  BY <1>1 DEF TypeOK, Registered
<1>3. runtime[e].firmware \in Boards \union {None} /\ runtime[e].polls \in Nat
  BY <1>2, FleetAssumption DEF Runtime
<1>4. polls \in 0 .. RefreshEvery - 1
  BY <1>3, FleetAssumption
<1>5. PICK read \in (IF polls = 0 THEN FirmwareRead(e, runtime[e].firmware)
                     ELSE {runtime[e].firmware}) :
        \/ PollAnswered(e, runtime[e], read, polls)
        \/ PollFailed(e, runtime[e], read, polls)
  BY DEF PollBoard
<1>6. read = runtime[e].firmware \/ read \in FirmwareRead(e, runtime[e].firmware)
  BY <1>5
<1>7. read \in Boards \union {None}
  BY <1>1, <1>3, <1>6, FirmwareReadType
<1> QED
  BY <1>1, <1>2, <1>4, <1>5, <1>6, <1>7

(* Every step keeps every variable typed.                                  *)
LEMMA TypeStep == TypeOK /\ [Next]_vars => TypeOK'
<1> SUFFICES ASSUME TypeOK, [Next]_vars PROVE TypeOK'
  OBVIOUS
<1>1. ASSUME ConnectPrimary PROVE TypeOK'
  <2>1. Register(Primary, PrimaryDevice, None, "up") /\ StartScan
    BY <1>1 DEF ConnectPrimary
  <2>2. /\ boards' \in Seq(Endpoints)
        /\ runtime' \in [Endpoints -> Runtime \union {None}]
        /\ \A i \in DOMAIN boards' : boards'[i] \in Registered'
    BY <2>1, RegisterType, EndpointAssumption DEF Outcomes
  <2> QED
    BY <1>1, <2>1, <2>2, FleetAssumption DEF ConnectPrimary, StartScan, TypeOK
<1>2. ASSUME NEW e \in Endpoints, Probe(e) PROVE TypeOK'
  <2>1. answers' \subseteq Answer
    BY <1>2, PlaceType DEF Probe, Answer, TypeOK
  <2> QED
    BY <1>2, <2>1 DEF Probe, TypeOK, Registered
<1>3. ASSUME EndProbes PROVE TypeOK'
  <2>1. KnownIdentities \subseteq Identities
    <3> SUFFICES ASSUME NEW e \in Registered, runtime[e].firmware # None
                 PROVE  Identity(e, runtime[e].firmware) \in Identities
      BY DEF KnownIdentities
    <3>1. e \in Endpoints /\ runtime[e] \in Runtime
      BY DEF TypeOK, Registered
    <3>2. runtime[e].firmware \in Boards
      BY <3>1 DEF Runtime
    <3> QED
      BY <3>1, <3>2 DEF Identities
  <2> QED
    BY <1>3, <2>1 DEF EndProbes, OnePerIdentity, TypeOK, Registered
<1>4. ASSUME NEW a \in answers, SkipAnswer(a) PROVE TypeOK'
  BY <1>4 DEF SkipAnswer, TypeOK, Registered
<1>5. ASSUME NEW a \in answers, AddBoard(a) PROVE TypeOK'
  <2>1. a.endpoint \in Endpoints /\ a.board \in Boards
    BY DEF TypeOK, Answer
  <2>2. AnswerIdentity(a) \in Identities
    BY <2>1 DEF AnswerIdentity, Identities
  <2>3. PICK outcome \in ConnectOutcomes :
          /\ Register(a.endpoint, AnswerIdentity(a), a.board, outcome)
          /\ IF outcome = "up"
               THEN /\ answers' = answers \ {a}
                    /\ known' = known \union {AnswerIdentity(a)}
                    /\ UNCHANGED <<phase, turn>>
               ELSE /\ answers' = {} /\ known' = {}
                    /\ phase' = "poll" /\ turn' = 1
    BY <1>5 DEF AddBoard
  <2>4. /\ boards' \in Seq(Endpoints)
        /\ runtime' \in [Endpoints -> Runtime \union {None}]
        /\ \A i \in DOMAIN boards' : boards'[i] \in Registered'
    BY <2>1, <2>2, <2>3, RegisterType, FleetAssumption
  <2> QED
    BY <1>5, <2>2, <2>3, <2>4 DEF AddBoard, TypeOK
<1>6. ASSUME EndScan PROVE TypeOK'
  BY <1>6 DEF EndScan, TypeOK, Registered
<1>7. ASSUME PollBoard PROVE TypeOK'
  <2>1. PICK e \in Registered, read \in Boards \union {None},
             polls \in 0 .. RefreshEvery - 1 :
          /\ runtime[e] \in Runtime
          /\ PollAnswered(e, runtime[e], read, polls)
             \/ PollFailed(e, runtime[e], read, polls)
    BY <1>7, PollFacts
  <2>2. e \in Endpoints
    BY DEF Registered
  <2>3. \E r \in Runtime : runtime' = [runtime EXCEPT ![e] = r]
    <3>1. CASE PollAnswered(e, runtime[e], read, polls)
      <4>1. place[e] \in Boards
        BY <2>2, <3>1, PlaceType DEF PollAnswered
      <4> QED
        BY <2>1, <3>1, <4>1, EntryType DEF PollAnswered, AnnouncedByPoll
    <3>2. CASE PollFailed(e, runtime[e], read, polls)
      BY <2>1, <3>2, EntryType DEF PollFailed
    <3> QED
      BY <2>1, <3>1, <3>2
  <2>4. UNCHANGED boards
    BY <1>7 DEF PollBoard
  <2>5. /\ runtime' \in [Endpoints -> Runtime \union {None}]
        /\ \A i \in DOMAIN boards' : boards'[i] \in Registered'
    BY <2>3, <2>4, ReplaceType
  <2> QED
    BY <1>7, <2>5 DEF PollBoard, TypeOK
<1>8. ASSUME EndRound PROVE TypeOK'
  BY <1>8 DEF EndRound, TypeOK, Registered
<1>9. ASSUME Wake PROVE TypeOK'
  BY <1>9, FleetAssumption DEF Wake, StartScan, TypeOK, Registered
<1>10. ASSUME NEW e \in Endpoints, SessionEstablished(e) PROVE TypeOK'
  <2>1. e \in Registered /\ runtime[e] \in Runtime
    BY <1>10 DEF SessionEstablished, TypeOK, Registered
  <2>2. [runtime[e] EXCEPT !.session = "up"] \in Runtime
    BY <2>1 DEF Runtime, Outcomes
  <2>3. /\ runtime' = [runtime EXCEPT ![e] = [runtime[e] EXCEPT !.session = "up"]]
        /\ UNCHANGED boards
    BY <1>10 DEF SessionEstablished, TypeOK
  <2>4. /\ runtime' \in [Endpoints -> Runtime \union {None}]
        /\ \A i \in DOMAIN boards' : boards'[i] \in Registered'
    BY <2>1, <2>2, <2>3, ReplaceType
  <2> QED
    BY <1>10, <2>4 DEF SessionEstablished, TypeOK
<1>11. ASSUME MoveBoards PROVE TypeOK'
  BY <1>11 DEF MoveBoards, TypeOK, Registered
<1>12. ASSUME UNCHANGED vars PROVE TypeOK'
  BY <1>12 DEF vars, TypeOK, Registered
<1> QED
  BY <1>1, <1>2, <1>3, <1>4, <1>5, <1>6, <1>7, <1>8, <1>9, <1>10, <1>11, <1>12
     DEF Next, MainThread

(* Every variable of the fleet keeps its type (multibridge.py, whole).     *)
THEOREM TypeCorrect == Spec => []TypeOK
<1>1. Init => TypeOK
  BY FleetAssumption DEF Init, TypeOK, Registered
<1> QED
  BY <1>1, TypeStep, PTL DEF Spec

-----------------------------------------------------------------------------
(* Device ids and boards, when addresses are stable.                       *)

(* With stable addresses only one board is ever at an endpoint.            *)
LEMMA HomeUnique ==
  ASSUME StableAddresses, NEW e \in Endpoints, NEW b \in Home(e), NEW c \in Home(e)
  PROVE  b = c
BY DEF StableAddresses, Home

(* What is at an endpoint now is its board.                                *)
LEMMA PlaceHome ==
  ASSUME TypeOK, NEW e \in Endpoints
  PROVE  place[e] \in Home(e) \union {None}
BY DEF TypeOK, Home

(* With stable addresses a firmware query never changes the identity that  *)
(* the scan compares.                                                      *)
LEMMA FirmwareReadHome ==
  ASSUME StableAddresses, TypeOK, NEW e \in Endpoints,
         NEW old \in Home(e) \union {None}, NEW read \in FirmwareRead(e, old)
  PROVE  /\ read \in Home(e) \union {None}
         /\ old # None => read = old
         /\ PrimaryAnswers /\ e = Primary => read # None
<1>1. place[e] \in Home(e) \union {None}
  BY PlaceHome
<1>2. read \in {place[e], old}
  BY DEF FirmwareRead
<1>3. old # None => read = old
  BY <1>1, HomeUnique DEF FirmwareRead
<1>4. PrimaryAnswers /\ e = Primary => read # None
  BY DEF FirmwareRead, PrimaryAnswers, TypeOK
<1> QED
  BY <1>1, <1>2, <1>3, <1>4

(* A change of one entry that keeps the identity compared keeps the        *)
(* invariant.                                                              *)
LEMMA ReplaceFleet ==
  ASSUME TypeOK, FleetInvariant, NEW e \in Registered, NEW r \in Runtime,
         runtime' = [runtime EXCEPT ![e] = r], UNCHANGED <<phase, answers, known>>,
         EntryOK(e, r), Compared(e) => r.firmware = runtime[e].firmware
  PROVE  FleetInvariant'
<1>1. e \in Endpoints
  BY DEF Registered
<1>2. /\ Registered' = Registered
      /\ runtime'[e] = r
      /\ \A f \in Endpoints \ {e} : runtime'[f] = runtime[f]
  <2>1. /\ Registered' = Registered \union {e}
        /\ runtime'[e] = r
        /\ \A f \in Endpoints \ {e} : runtime'[f] = runtime[f]
    BY <1>1, SetEntry DEF TypeOK
  <2> QED
    BY <2>1
<1>3. RegistryOK'
  <2> SUFFICES ASSUME NEW f \in Registered PROVE EntryOK(f, runtime'[f])
    BY <1>2 DEF FleetInvariant, RegistryOK, EntryOK, Home
  <2>1. f \in Endpoints
    BY DEF Registered
  <2>2. CASE f = e
    BY <1>2, <2>2
  <2>3. CASE f # e
    BY <1>2, <2>1, <2>3 DEF FleetInvariant, RegistryOK
  <2> QED
    BY <2>2, <2>3
<1>4. \A f \in Endpoints :
        /\ Compared(f)' <=> Compared(f)
        /\ Compared(f) => runtime'[f].firmware = runtime[f].firmware
  BY <1>2 DEF Compared
<1>5. KnownOK'
  BY <1>4 DEF FleetInvariant, KnownOK
<1>6. IdentitiesDistinct'
  BY <1>4 DEF FleetInvariant, IdentitiesDistinct
<1> QED
  BY <1>3, <1>5, <1>6 DEF FleetInvariant, AnswersOK

(* Polling a board keeps the invariant.                                    *)
LEMMA PollFleet ==
  ASSUME StableAddresses, TypeOK, FleetInvariant, PollBoard
  PROVE  FleetInvariant'
<1>1. PICK e \in Registered, read \in Boards \union {None},
           polls \in 0 .. RefreshEvery - 1 :
        /\ runtime[e] \in Runtime
        /\ read = runtime[e].firmware \/ read \in FirmwareRead(e, runtime[e].firmware)
        /\ PollAnswered(e, runtime[e], read, polls)
           \/ PollFailed(e, runtime[e], read, polls)
  BY PollFacts
<1>2. e \in Endpoints /\ EntryOK(e, runtime[e])
  BY DEF Registered, FleetInvariant, RegistryOK
<1>3. /\ read \in Home(e) \union {None}
      /\ runtime[e].firmware # None => read = runtime[e].firmware
      /\ PrimaryAnswers /\ e = Primary => read # None
  BY <1>1, <1>2, FirmwareReadHome DEF EntryOK
<1>4. Compared(e) => read = runtime[e].firmware
  BY <1>2, <1>3 DEF Compared, EntryOK
<1>5. UNCHANGED <<phase, answers, known>>
  BY DEF PollBoard
<1>6. PICK r \in Runtime :
        /\ runtime' = [runtime EXCEPT ![e] = r]
        /\ r.firmware = read
        /\ r.device = runtime[e].device
        /\ r.shows \in Home(e) \union {None}
  <2>1. CASE PollAnswered(e, runtime[e], read, polls)
    <3>1. place[e] \in Boards /\ place[e] \in Home(e)
      BY <1>2, <2>1, PlaceType, PlaceHome DEF PollAnswered
    <3> DEFINE r == [runtime[e] EXCEPT !.firmware = read, !.announced = TRUE,
                       !.online = TRUE, !.shows = place[e], !.polls = polls]
    <3>2. r \in Runtime
      BY <1>1, <3>1, EntryType
    <3>3. /\ r.firmware = read /\ r.device = runtime[e].device
          /\ r.shows = place[e]
      BY <1>1 DEF Runtime
    <3>4. runtime' = [runtime EXCEPT ![e] = r]
      BY <2>1 DEF PollAnswered, AnnouncedByPoll
    <3> QED
      BY <3>1, <3>2, <3>3, <3>4
  <2>2. CASE PollFailed(e, runtime[e], read, polls)
    <3> DEFINE r == [runtime[e] EXCEPT !.firmware = read, !.online = FALSE,
                       !.polls = polls]
    <3>1. r \in Runtime
      BY <1>1, EntryType
    <3>2. /\ r.firmware = read /\ r.device = runtime[e].device
          /\ r.shows = runtime[e].shows
      BY <1>1 DEF Runtime
    <3>3. runtime' = [runtime EXCEPT ![e] = r]
      BY <2>2 DEF PollFailed
    <3> QED
      BY <1>2, <3>1, <3>2, <3>3 DEF EntryOK
  <2> QED
    BY <1>1, <2>1, <2>2
<1>7. EntryOK(e, r)
  BY <1>2, <1>3, <1>6 DEF EntryOK
<1> QED
  BY <1>4, <1>5, <1>6, <1>7, ReplaceFleet

(* A session that comes up late changes nothing the scan compares.         *)
LEMMA SessionFleet ==
  ASSUME TypeOK, FleetInvariant, NEW e \in Endpoints, SessionEstablished(e)
  PROVE  FleetInvariant'
<1> DEFINE r == [runtime[e] EXCEPT !.session = "up"]
<1>1. e \in Registered /\ runtime[e] \in Runtime
  BY DEF SessionEstablished, TypeOK, Registered
<1>2. /\ r \in Runtime
      /\ r.firmware = runtime[e].firmware /\ r.device = runtime[e].device
      /\ r.shows = runtime[e].shows
  BY <1>1 DEF Runtime, Outcomes
<1>3. runtime' = [runtime EXCEPT ![e] = r] /\ UNCHANGED <<phase, answers, known>>
  BY DEF SessionEstablished, TypeOK
<1>4. EntryOK(e, r)
  BY <1>1, <1>2 DEF EntryOK, FleetInvariant, RegistryOK
<1> QED
  BY <1>1, <1>2, <1>3, <1>4, ReplaceFleet

(* Registering a board that no registered one has the identity of.         *)
LEMMA RegisterFleet ==
  ASSUME StableAddresses, TypeOK, FleetInvariant,
         NEW e \in Endpoints \ Registered,
         NEW d \in Identities \union {PrimaryDevice},
         NEW b \in Home(e) \union {None}, NEW o \in Outcomes,
         Register(e, d, b, o),
         IF e = Primary THEN d = PrimaryDevice /\ o = "up" /\ b = None
                        ELSE b # None /\ d = Identity(e, b)
  PROVE  /\ Registered' = Registered \union {e}
         /\ \A f \in Registered : runtime'[f] = runtime[f]
         /\ EntryOK(e, runtime'[e])
         /\ e # Primary => runtime'[e].firmware = b
<1>1. PICK read \in (IF o = "up" THEN FirmwareRead(e, b) ELSE {b}) :
        runtime' = [runtime EXCEPT ![e] =
          [device |-> d, firmware |-> read, session |-> o,
           announced |-> (o = "up"), online |-> FALSE, shows |-> None,
           polls |-> 0]]
  BY DEF Register
<1> DEFINE r == [device |-> d, firmware |-> read, session |-> o,
                 announced |-> (o = "up"), online |-> FALSE, shows |-> None,
                 polls |-> 0]
<1>2. /\ read \in Home(e) \union {None}
      /\ b # None => read = b
      /\ PrimaryAnswers /\ e = Primary => read # None
  BY <1>1, FirmwareReadHome
<1>3. read \in Boards \union {None}
  BY <1>2, PlacementAssumption DEF Home
<1>4. r \in Runtime
  BY <1>3, FleetAssumption DEF Runtime
<1>5. /\ Registered' = Registered \union {e}
      /\ runtime'[e] = r
      /\ \A f \in Endpoints \ {e} : runtime'[f] = runtime[f]
  <2>1. runtime' = [runtime EXCEPT ![e] = r]
    BY <1>1
  <2>2. runtime \in [Endpoints -> Runtime \union {None}]
    BY DEF TypeOK
  <2> HIDE DEF r
  <2> QED
    BY <1>4, <2>1, <2>2, SetEntry
<1>6. EntryOK(e, r) /\ r.firmware = read
  BY <1>2 DEF EntryOK
<1> QED
  BY <1>2, <1>5, <1>6 DEF Registered

(* The configured board is the first one registered.                       *)
LEMMA ConnectFleet ==
  ASSUME StableAddresses, TypeOK, FleetInvariant, ConnectPrimary
  PROVE  FleetInvariant'
<1>1. Registered = {} /\ Primary \in Endpoints
  BY EndpointAssumption DEF FleetInvariant, RegistryOK, ConnectPrimary
<1>2. /\ Register(Primary, PrimaryDevice, None, "up")
      /\ phase' = "probe" /\ UNCHANGED answers
  BY DEF ConnectPrimary, StartScan
<1>3. /\ Registered' = {Primary}
      /\ EntryOK(Primary, runtime'[Primary])
  BY <1>1, <1>2, RegisterFleet DEF Outcomes
<1>4. RegistryOK'
  BY <1>2, <1>3 DEF RegistryOK, EntryOK, Home
<1>5. IdentitiesDistinct'
  BY <1>3 DEF IdentitiesDistinct, Compared
<1> QED
  BY <1>2, <1>4, <1>5 DEF FleetInvariant, KnownOK, AnswersOK

(* When the probes have ended, every identity in the registry is known.    *)
LEMMA EndProbesFleet ==
  ASSUME TypeOK, FleetInvariant, EndProbes
  PROVE  FleetInvariant'
<1>1. /\ answers' \subseteq answers /\ known' = KnownIdentities
      /\ phase' = "add" /\ UNCHANGED runtime
  BY DEF EndProbes, OnePerIdentity
<1>2. \A e \in Endpoints : Compared(e) => Identity(e, runtime[e].firmware) \in known'
  BY <1>1 DEF FleetInvariant, RegistryOK, EntryOK, Compared, KnownIdentities
<1>3. KnownOK'
  BY <1>1, <1>2 DEF KnownOK, Compared, Registered
<1> QED
  BY <1>1, <1>3 DEF FleetInvariant, RegistryOK, EntryOK, Home, AnswersOK,
     IdentitiesDistinct, Compared, Registered

(* A board that is added has an identity no registered board has.          *)
LEMMA AddFleet ==
  ASSUME StableAddresses, TypeOK, FleetInvariant, NEW a \in answers, AddBoard(a)
  PROVE  FleetInvariant'
<1> DEFINE e == a.endpoint
           b == a.board
<1>1. /\ e \in Endpoints \ Registered /\ e # Primary
      /\ AnswerIdentity(a) \notin known /\ phase = "add"
  BY DEF AddBoard, AlreadyKnown, NextAnswer, TypeOK, Answer
<1>2. b \in Home(e) /\ b \in Boards /\ b # None
  BY PlacementAssumption DEF FleetInvariant, AnswersOK, TypeOK, Answer
<1>3. AnswerIdentity(a) = Identity(e, b) /\ Identity(e, b) \in Identities
  BY <1>1, <1>2 DEF AnswerIdentity, Identities
<1>4. PICK outcome \in ConnectOutcomes :
        /\ Register(e, Identity(e, b), b, outcome)
        /\ answers' \subseteq answers
        /\ phase' = "poll" \/ phase' = "add"
        /\ phase' = "add" => known' = known \union {Identity(e, b)}
  BY <1>1, <1>3 DEF AddBoard
<1>5. /\ Registered' = Registered \union {e}
      /\ \A f \in Registered : runtime'[f] = runtime[f]
      /\ EntryOK(e, runtime'[e])
      /\ runtime'[e].firmware = b
  BY <1>1, <1>2, <1>3, <1>4, RegisterFleet, FleetAssumption
<1>6. RegistryOK'
  <2> SUFFICES ASSUME NEW f \in Registered' PROVE EntryOK(f, runtime'[f])
    BY <1>4 DEF RegistryOK, EntryOK, Home
  <2>1. CASE f \in Registered
    BY <1>5, <2>1 DEF FleetInvariant, RegistryOK
  <2> QED
    BY <1>5, <2>1
<1>7. \A f \in Endpoints \ {e} :
        /\ Compared(f)' <=> Compared(f)
        /\ Compared(f) => /\ runtime'[f].firmware = runtime[f].firmware
                          /\ Identity(f, runtime[f].firmware) \in known
  BY <1>1, <1>5 DEF Compared, FleetInvariant, KnownOK
<1>8. KnownOK'
  BY <1>4, <1>5, <1>7 DEF KnownOK
<1>9. IdentitiesDistinct'
  BY <1>1, <1>3, <1>5, <1>7 DEF FleetInvariant, IdentitiesDistinct
<1> QED
  BY <1>4, <1>6, <1>8, <1>9 DEF FleetInvariant, AnswersOK

(* Every step keeps the invariant.                                         *)
LEMMA FleetStep ==
  ASSUME StableAddresses, TypeOK, FleetInvariant, [Next]_vars
  PROVE  FleetInvariant'
<1>1. ASSUME UNCHANGED <<phase, runtime, known>>,
             \A a \in answers' : a.board \in Home(a.endpoint)
      PROVE  FleetInvariant'
  BY <1>1 DEF FleetInvariant, RegistryOK, EntryOK, Home, AnswersOK, KnownOK,
     IdentitiesDistinct, Compared, Registered
<1>2. ASSUME UNCHANGED <<runtime, answers>>, phase' \notin {"start", "add"}
      PROVE  FleetInvariant'
  BY <1>2 DEF FleetInvariant, RegistryOK, EntryOK, Home, AnswersOK, KnownOK,
     IdentitiesDistinct, Compared, Registered
<1>3. ASSUME NEW e \in Endpoints, Probe(e) PROVE FleetInvariant'
  <2>1. \A a \in answers' : a.board \in Home(a.endpoint)
    BY <1>3, PlaceHome DEF Probe, FleetInvariant, AnswersOK
  <2> QED
    BY <1>1, <1>3, <2>1 DEF Probe
<1>4. ASSUME NEW a \in answers, SkipAnswer(a) PROVE FleetInvariant'
  BY <1>1, <1>4 DEF SkipAnswer, FleetInvariant, AnswersOK
<1>5. CASE EndScan
  BY <1>2, <1>5 DEF EndScan
<1>6. CASE EndRound
  BY <1>2, <1>6 DEF EndRound
<1>7. CASE Wake
  BY <1>2, <1>7 DEF Wake, StartScan
<1>8. CASE MoveBoards \/ UNCHANGED vars
  BY <1>1, <1>8 DEF MoveBoards, vars, FleetInvariant, AnswersOK
<1> QED
  BY <1>3, <1>4, <1>5, <1>6, <1>7, <1>8, ConnectFleet, EndProbesFleet, AddFleet,
     PollFleet, SessionFleet DEF Next, MainThread

(* The invariant holds in every state.                                     *)
LEMMA FleetHolds ==
  ASSUME StableAddresses
  PROVE  Spec => [](TypeOK /\ FleetInvariant)
<1>1. Init => TypeOK /\ FleetInvariant
  BY FleetAssumption DEF Init, TypeOK, FleetInvariant, RegistryOK, AnswersOK,
     KnownOK, IdentitiesDistinct, Compared, Registered
<1>2. TypeOK /\ FleetInvariant /\ [Next]_vars => (TypeOK /\ FleetInvariant)'
  BY TypeStep, FleetStep
<1> QED
  BY <1>1, <1>2, PTL DEF Spec

(* When every address leads to one board only, two devices never share     *)
(* their device id, topics and client id (scan_once, _known_identity_keys).*)
THEOREM DeviceIdsAreUnique ==
  ASSUME StableAddresses
  PROVE  Spec => []DeviceIdsUnique
<1>1. TypeOK /\ FleetInvariant => DeviceIdsUnique
  <2> SUFFICES ASSUME FleetInvariant, NEW e \in Registered, NEW f \in Registered, e # f
               PROVE  runtime[e].device # runtime[f].device
    BY DEF DeviceIdsUnique
  <2>1. e \in Endpoints /\ f \in Endpoints
    BY DEF Registered
  <2>2. EntryOK(e, runtime[e]) /\ EntryOK(f, runtime[f])
    BY DEF FleetInvariant, RegistryOK
  <2>3. \A g \in Endpoints : \A b : Identity(g, b) # PrimaryDevice
    BY DEF Identity, PrimaryDevice
  <2>4. CASE e # Primary /\ f # Primary
    BY <2>1, <2>2, <2>4 DEF FleetInvariant, IdentitiesDistinct, Compared, EntryOK
  <2> QED
    BY <2>1, <2>2, <2>3, <2>4 DEF EntryOK
<1> QED
  BY <1>1, FleetHolds, PTL

(* When, besides, the configured board never misses a firmware query, a    *)
(* board with a uuid is shown by one device, whatever its addresses.       *)
THEOREM BoardsShownOnce ==
  ASSUME StableAddresses, PrimaryAnswers
  PROVE  Spec => []OneDevicePerBoard
<1>1. TypeOK /\ FleetInvariant => OneDevicePerBoard
  <2> SUFFICES ASSUME FleetInvariant, NEW e \in Registered, NEW f \in Registered,
                      e # f, runtime[e].shows = runtime[f].shows,
                      runtime[e].shows \notin Anonymous \union {None}
               PROVE  FALSE
    BY DEF OneDevicePerBoard
  <2>1. /\ e \in Endpoints /\ f \in Endpoints
        /\ Compared(e) /\ Compared(f)
    BY DEF Registered, Compared
  <2>2. EntryOK(e, runtime[e]) /\ EntryOK(f, runtime[f])
    BY DEF FleetInvariant, RegistryOK
  <2>3. /\ runtime[e].firmware = runtime[e].shows
        /\ runtime[f].firmware = runtime[e].shows
    BY <2>1, <2>2, HomeUnique DEF EntryOK
  <2>4. Identity(e, runtime[e].firmware) = Identity(f, runtime[f].firmware)
    BY <2>3 DEF Identity
  <2> QED
    BY <2>1, <2>4 DEF FleetInvariant, IdentitiesDistinct
<1> QED
  BY <1>1, FleetHolds, PTL

-----------------------------------------------------------------------------
(* The fleet implements DeviceRegistry.                                    *)

(* What changes nothing of devices and what they show is a stutter.        *)
LEMMA StutterMaps ==
  ASSUME Registered' = Registered,
         \A e \in Registered : /\ runtime'[e].device = runtime[e].device
                               /\ runtime'[e].shows = runtime[e].shows
  PROVE  UNCHANGED Registry!registryVars
<1>1. Showing' = Showing
  BY DEF Showing
<1> QED
  BY <1>1 DEF Registry!registryVars, Showing

(* A board that is registered is a new device with an id of its own.       *)
LEMMA EnrolMaps ==
  ASSUME TypeOK', DeviceIdsUnique', NEW e \in Endpoints, e \notin Registered,
         Registered' = Registered \union {e},
         \A f \in Registered : runtime'[f] = runtime[f],
         runtime'[e].shows = None
  PROVE  Registry!Enrol(e)
<1>1. runtime'[e].device \in Identities \union {PrimaryDevice}
  <2>1. runtime'[e] \in Runtime
    BY DEF TypeOK, Registered
  <2> QED
    BY <2>1 DEF Runtime, Identities, PrimaryDevice
<1>2. \A f \in Registered : runtime'[e].device # runtime[f].device
  BY DEF DeviceIdsUnique
<1>3. Showing' = Showing
  BY DEF Showing
<1>4. [f \in Showing |-> runtime[f].shows]' = [f \in Showing |-> runtime[f].shows]
  BY <1>3 DEF Showing
<1>5. Registry!Grows([f \in Registered |-> runtime[f].device],
                     [f \in Registered |-> runtime[f].device]', e)
  BY DEF Registry!Grows
<1>6. runtime'[e].device
        \notin Registry!Range([f \in Registered |-> runtime[f].device])
  BY <1>2 DEF Registry!Range
<1> QED
  BY <1>1, <1>4, <1>5, <1>6 DEF Registry!Enrol, Identities, PrimaryDevice

(* A device that shows its first board shows one that, if it has a uuid,   *)
(* no other device shows.                                                  *)
LEMMA ShowMaps ==
  ASSUME TypeOK', OneDevicePerBoard', NEW e \in Registered,
         Registered' = Registered,
         \A f \in Registered \ {e} : runtime'[f] = runtime[f],
         runtime'[e].device = runtime[e].device,
         runtime[e].shows = None, runtime'[e].shows # None
  PROVE  Registry!Show(e)
<1> DEFINE b == runtime'[e].shows
<1>1. e \in Endpoints /\ b \in Boards
  <2>1. e \in Endpoints
    BY DEF Registered
  <2>2. runtime'[e] \in Runtime
    BY <2>1 DEF TypeOK, Registered
  <2> QED
    BY <2>1, <2>2 DEF Runtime
<1>2. Showing' = Showing \union {e} /\ e \notin Showing /\ Showing \subseteq Registered
  BY DEF Showing
<1>3. \A f \in Showing : runtime'[f].shows = runtime[f].shows
  BY <1>2
<1>4. \A f \in Showing : b \in Anonymous \/ runtime[f].shows # b
  BY <1>2, <1>3 DEF OneDevicePerBoard
<1>5. [f \in Registered |-> runtime[f].device]' = [f \in Registered |-> runtime[f].device]
  BY DEF Registered
<1>6. Registry!Grows([f \in Showing |-> runtime[f].shows],
                     [f \in Showing |-> runtime[f].shows]', e)
  BY <1>2, <1>3 DEF Registry!Grows
<1>7. b \in Boards \ (Registry!Range([f \in Showing |-> runtime[f].shows]) \ Anonymous)
  BY <1>1, <1>4 DEF Registry!Range
<1>8. [f \in Showing |-> runtime[f].shows]'[e] = b
  BY <1>2
<1> QED
  BY <1>2, <1>5, <1>6, <1>7, <1>8 DEF Registry!Show

(* Registering a board leaves all others alone, and shows nothing yet.     *)
LEMMA RegisterEntry ==
  ASSUME TypeOK, NEW e \in Endpoints, NEW d \in Identities \union {PrimaryDevice},
         NEW b \in Boards \union {None}, NEW o \in Outcomes, Register(e, d, b, o),
         e \notin Registered
  PROVE  /\ Registered' = Registered \union {e}
         /\ \A f \in Registered : runtime'[f] = runtime[f]
         /\ runtime'[e].shows = None
<1>1. PICK read \in Boards \union {None} :
        runtime' = [runtime EXCEPT ![e] =
          [device |-> d, firmware |-> read, session |-> o,
           announced |-> (o = "up"), online |-> FALSE, shows |-> None,
           polls |-> 0]]
  BY FirmwareReadType DEF Register
<1> DEFINE r == [device |-> d, firmware |-> read, session |-> o,
                 announced |-> (o = "up"), online |-> FALSE, shows |-> None,
                 polls |-> 0]
<1>2. r \in Runtime /\ r.shows = None
  BY FleetAssumption DEF Runtime
<1>3. runtime' = [runtime EXCEPT ![e] = r]
  BY <1>1
<1> HIDE DEF r
<1>4. /\ Registered' = Registered \union {e} /\ runtime'[e] = r
      /\ \A f \in Endpoints \ {e} : runtime'[f] = runtime[f]
  BY <1>2, <1>3, SetEntry DEF TypeOK
<1> QED
  BY <1>2, <1>4 DEF Registered

(* A poll shows the board at the endpoint, which is the one shown before.  *)
LEMMA PollMaps ==
  ASSUME StableAddresses, TypeOK, FleetInvariant, PollBoard, TypeOK',
         OneDevicePerBoard'
  PROVE  [Registry!RegistryNext]_(Registry!registryVars)
<1>1. PICK e \in Registered, read \in Boards \union {None},
           polls \in 0 .. RefreshEvery - 1 :
        /\ runtime[e] \in Runtime
        /\ PollAnswered(e, runtime[e], read, polls)
           \/ PollFailed(e, runtime[e], read, polls)
  BY PollFacts
<1>2. e \in Endpoints /\ EntryOK(e, runtime[e])
  BY DEF Registered, FleetInvariant, RegistryOK
<1>3. PICK r \in Runtime :
        /\ runtime' = [runtime EXCEPT ![e] = r]
        /\ r.device = runtime[e].device
        /\ r.shows = runtime[e].shows
           \/ (r.shows = place[e] /\ place[e] # None)
  <2>1. CASE PollAnswered(e, runtime[e], read, polls)
    <3>1. place[e] \in Boards /\ place[e] # None
      BY <1>2, <2>1, PlaceType DEF PollAnswered
    <3> DEFINE r == [runtime[e] EXCEPT !.firmware = read, !.announced = TRUE,
                       !.online = TRUE, !.shows = place[e], !.polls = polls]
    <3>2. r \in Runtime
      BY <1>1, <3>1, EntryType
    <3>3. r.device = runtime[e].device /\ r.shows = place[e]
      BY <1>1 DEF Runtime
    <3>4. runtime' = [runtime EXCEPT ![e] = r]
      BY <2>1 DEF PollAnswered, AnnouncedByPoll
    <3> QED
      BY <3>1, <3>2, <3>3, <3>4
  <2>2. CASE PollFailed(e, runtime[e], read, polls)
    <3> DEFINE r == [runtime[e] EXCEPT !.firmware = read, !.online = FALSE,
                       !.polls = polls]
    <3>1. r \in Runtime
      BY <1>1, EntryType
    <3>2. r.device = runtime[e].device /\ r.shows = runtime[e].shows
      BY <1>1 DEF Runtime
    <3>3. runtime' = [runtime EXCEPT ![e] = r]
      BY <2>2 DEF PollFailed
    <3> QED
      BY <3>1, <3>2, <3>3
  <2> QED
    BY <1>1, <2>1, <2>2
<1>4. /\ Registered' = Registered /\ runtime'[e] = r
      /\ \A f \in Registered \ {e} : runtime'[f] = runtime[f]
  <2>1. /\ Registered' = Registered \union {e} /\ runtime'[e] = r
        /\ \A f \in Endpoints \ {e} : runtime'[f] = runtime[f]
    BY <1>2, <1>3, SetEntry DEF TypeOK
  <2> QED
    BY <2>1 DEF Registered
<1>5. CASE r.shows = runtime[e].shows
  BY <1>3, <1>4, <1>5, StutterMaps
<1>6. CASE r.shows = place[e] /\ place[e] # None /\ r.shows # runtime[e].shows
  <2>1. runtime[e].shows = None
    BY <1>2, <1>6, PlaceHome, HomeUnique DEF EntryOK
  <2>2. Registry!Show(e)
    BY <1>3, <1>4, <1>6, <2>1, ShowMaps
  <2> QED
    BY <1>2, <2>2 DEF Registry!RegistryNext
<1> QED
  BY <1>3, <1>5, <1>6

(* Every step of the fleet is a step of the registry or a stutter.         *)
LEMMA RegistryStep ==
  ASSUME StableAddresses, TypeOK, FleetInvariant, [Next]_vars,
         TypeOK', DeviceIdsUnique', OneDevicePerBoard'
  PROVE  [Registry!RegistryNext]_(Registry!registryVars)
<1>1. CASE ConnectPrimary
  <2>1. /\ Registered = {} /\ Primary \in Endpoints
        /\ Register(Primary, PrimaryDevice, None, "up")
    BY <1>1, EndpointAssumption DEF FleetInvariant, RegistryOK, ConnectPrimary
  <2>2. /\ Registered' = Registered \union {Primary}
        /\ runtime'[Primary].shows = None
    BY <2>1, RegisterEntry DEF Outcomes
  <2>3. Registry!Enrol(Primary)
    BY <2>1, <2>2, EnrolMaps
  <2> QED
    BY <2>1, <2>3 DEF Registry!RegistryNext
<1>2. ASSUME NEW a \in answers, AddBoard(a)
      PROVE  [Registry!RegistryNext]_(Registry!registryVars)
  <2> DEFINE e == a.endpoint
  <2>1. e \in Endpoints /\ a.board \in Boards /\ e \notin Registered
    BY <1>2 DEF AddBoard, AlreadyKnown, TypeOK, Answer
  <2>2. AnswerIdentity(a) \in Identities
    BY <2>1 DEF AnswerIdentity, Identities
  <2>3. PICK o \in Outcomes : Register(e, AnswerIdentity(a), a.board, o)
    BY <1>2, FleetAssumption DEF AddBoard
  <2>4. /\ Registered' = Registered \union {e}
        /\ \A f \in Registered : runtime'[f] = runtime[f]
        /\ runtime'[e].shows = None
    BY <2>1, <2>2, <2>3, RegisterEntry
  <2>5. Registry!Enrol(e)
    BY <2>1, <2>4, EnrolMaps
  <2> QED
    BY <2>1, <2>5 DEF Registry!RegistryNext
<1>3. ASSUME NEW e \in Endpoints, SessionEstablished(e)
      PROVE  [Registry!RegistryNext]_(Registry!registryVars)
  <2>1. e \in Registered /\ runtime[e] \in Runtime
    BY <1>3 DEF SessionEstablished, TypeOK, Registered
  <2> DEFINE r == [runtime[e] EXCEPT !.session = "up"]
  <2>2. /\ r \in Runtime /\ r.device = runtime[e].device
        /\ r.shows = runtime[e].shows
    BY <2>1 DEF Runtime, Outcomes
  <2>3. runtime' = [runtime EXCEPT ![e] = r]
    BY <1>3 DEF SessionEstablished, TypeOK
  <2> HIDE DEF r
  <2>4. /\ Registered' = Registered \union {e} /\ runtime'[e] = r
        /\ \A f \in Endpoints \ {e} : runtime'[f] = runtime[f]
    BY <2>2, <2>3, SetEntry DEF TypeOK
  <2>5. \A f \in Registered : /\ runtime'[f].device = runtime[f].device
                              /\ runtime'[f].shows = runtime[f].shows
    BY <2>2, <2>4 DEF Registered
  <2> QED
    BY <2>1, <2>4, <2>5, StutterMaps
<1>4. CASE UNCHANGED runtime
  BY <1>4, StutterMaps DEF Registered
<1>5. \/ ConnectPrimary \/ (\E a \in answers : AddBoard(a)) \/ PollBoard
      \/ (\E e \in Endpoints : SessionEstablished(e))
      \/ UNCHANGED runtime
  BY DEF Next, MainThread, EndProbes, SkipAnswer, EndScan, EndRound, Wake,
     Probe, MoveBoards, vars
<1> QED
  BY <1>1, <1>2, <1>3, <1>4, <1>5, PollMaps

(* Under the same conditions the fleet implements DeviceRegistry: a device *)
(* keeps its id, shows one board for good, and shares it with no other     *)
(* device if it has a uuid.                                                *)
THEOREM FleetIsARegistry ==
  ASSUME StableAddresses, PrimaryAnswers
  PROVE  Spec => RegistrySpec
<1>1. Init => Registry!RegistryInit
  BY DEF Init, Registry!RegistryInit, Registry!Empty, Registered, Showing
<1>2. TypeOK /\ FleetInvariant /\ [Next]_vars
        /\ TypeOK' /\ DeviceIdsUnique' /\ OneDevicePerBoard'
        => [Registry!RegistryNext]_(Registry!registryVars)
  BY RegistryStep
<1> QED
  BY <1>1, <1>2, FleetHolds, DeviceIdsAreUnique, BoardsShownOnce, PTL
  DEF Spec, RegistrySpec, Registry!RegistrySpec

-----------------------------------------------------------------------------
(* The fleet and the scanner.                                              *)

(* A probe that is over answered once at most, and answers are there while *)
(* a scan is on only.                                                      *)
ProbesInvariant ==
  /\ \A a, b \in answers : a.endpoint = b.endpoint => a = b
  /\ \A a \in answers : a.endpoint \notin toProbe
  /\ phase \notin {"probe", "add"} => answers = {}

(* Every step keeps it, in every network.                                  *)
LEMMA ProbesStep ==
  ASSUME TypeOK, ProbesInvariant, [Next]_vars
  PROVE  ProbesInvariant'
<1>1. CASE ConnectPrimary
  BY <1>1 DEF ConnectPrimary, StartScan, ProbesInvariant
<1>2. ASSUME NEW e \in Endpoints, Probe(e) PROVE ProbesInvariant'
  BY <1>2 DEF Probe, ProbesInvariant
<1>3. CASE EndProbes
  BY <1>3 DEF EndProbes, OnePerIdentity, ProbesInvariant
<1>4. ASSUME NEW a \in answers, SkipAnswer(a) \/ AddBoard(a)
      PROVE  ProbesInvariant'
  BY <1>4 DEF SkipAnswer, AddBoard, NextAnswer, ProbesInvariant
<1>5. CASE EndScan \/ PollBoard \/ EndRound
  BY <1>5 DEF EndScan, PollBoard, EndRound, ProbesInvariant
<1>6. CASE Wake
  BY <1>6 DEF Wake, StartScan, ProbesInvariant
<1>7. CASE MoveBoards \/ \E e \in Endpoints : SessionEstablished(e)
  BY <1>7 DEF MoveBoards, SessionEstablished, ProbesInvariant
<1>8. CASE UNCHANGED vars
  BY <1>8 DEF vars, ProbesInvariant
<1> QED
  BY <1>1, <1>2, <1>3, <1>4, <1>5, <1>6, <1>7, <1>8 DEF Next, MainThread

(* The two modules mean the same by answers of one device: MultiBoard      *)
(* leaves open exactly what ScanCall leaves open.                          *)
LEMMA SameIdentities ==
  ASSUME ProbesInvariant, NEW a \in answers, NEW b \in answers
  PROVE  LET x == [at |-> a.endpoint, board |-> a.board]
             y == [at |-> b.endpoint, board |-> b.board]
         IN  /\ Scan!Same(x, y) <=> AnswerIdentity(a) = AnswerIdentity(b)
             /\ x = y <=> a = b
<1>1. a.endpoint = b.endpoint => a = b
  BY DEF ProbesInvariant
<1>2. <<"endpoint", a.endpoint>> # <<"uuid", b.board>>
      /\ <<"endpoint", b.endpoint>> # <<"uuid", a.board>>
  OBVIOUS
<1> QED
  BY <1>1, <1>2 DEF Scan!Same, AnswerIdentity, Identity

(* Any set of answers MultiBoard may keep is one ScanCall may return, and  *)
(* the other way round.                                                    *)
LEMMA KeptAsReturned ==
  ASSUME ProbesInvariant, NEW kept \in SUBSET answers
  PROVE  OnePerIdentity(kept) <=> Scan!OneOfEach(AsHeard(kept), AsHeard(answers))
<1> DEFINE at(a) == [at |-> a.endpoint, board |-> a.board]
<1>1. ASSUME OnePerIdentity(kept)
      PROVE  Scan!OneOfEach(AsHeard(kept), AsHeard(answers))
  <2>1. AsHeard(kept) \subseteq AsHeard(answers)
    BY DEF AsHeard
  <2>2. ASSUME NEW x \in AsHeard(answers)
        PROVE  \E y \in AsHeard(kept) : Scan!Same(y, x)
    <3>1. PICK a \in answers : x = at(a)
      BY <2>2 DEF AsHeard
    <3>2. PICK k \in kept : AnswerIdentity(k) = AnswerIdentity(a)
      BY <1>1 DEF OnePerIdentity
    <3>3. at(k) \in AsHeard(kept)
      BY DEF AsHeard
    <3> QED
      BY <3>1, <3>2, <3>3, SameIdentities
  <2>3. ASSUME NEW x \in AsHeard(kept), NEW y \in AsHeard(kept), Scan!Same(x, y)
        PROVE  x = y
    <3>1. PICK k \in kept, l \in kept : x = at(k) /\ y = at(l)
      BY <2>3 DEF AsHeard
    <3>2. AnswerIdentity(k) = AnswerIdentity(l)
      BY <2>3, <3>1, SameIdentities
    <3> QED
      BY <1>1, <3>1, <3>2 DEF OnePerIdentity
  <2> QED
    BY <2>1, <2>2, <2>3 DEF Scan!OneOfEach
<1>2. ASSUME Scan!OneOfEach(AsHeard(kept), AsHeard(answers))
      PROVE  OnePerIdentity(kept)
  <2>1. ASSUME NEW a \in answers
        PROVE  \E k \in kept : AnswerIdentity(k) = AnswerIdentity(a)
    <3>1. at(a) \in AsHeard(answers)
      BY DEF AsHeard
    <3>2. PICK y \in AsHeard(kept) : Scan!Same(y, at(a))
      BY <1>2, <3>1 DEF Scan!OneOfEach
    <3>3. PICK k \in kept : y = at(k)
      BY DEF AsHeard
    <3> QED
      BY <3>2, <3>3, SameIdentities
  <2>2. ASSUME NEW k \in kept, NEW l \in kept,
               AnswerIdentity(k) = AnswerIdentity(l)
        PROVE  k = l
    <3>1. at(k) \in AsHeard(kept) /\ at(l) \in AsHeard(kept)
      BY DEF AsHeard
    <3>2. Scan!Same(at(k), at(l))
      BY <2>2, SameIdentities
    <3>3. at(k) = at(l)
      BY <1>2, <3>1, <3>2 DEF Scan!OneOfEach
    <3> QED
      BY <3>3, SameIdentities
  <2> QED
    BY <2>1, <2>2 DEF OnePerIdentity
<1> QED
  BY <1>1, <1>2

(* While the probes run a step hears of one more answer, or of none; the   *)
(* step that ends them keeps one of each device.                           *)
LEMMA ScanCallStep ==
  ASSUME TypeOK, ProbesInvariant, Next, phase = "probe"
  PROVE  IF phase' = "probe"
           THEN [\E a \in [at : Scanned, board : Boards] : Scan!Hear(a)]_(Scan!callVars)
           ELSE Scan!OneOfEach(AsHeard(answers'), AsHeard(answers))
<1>1. CASE EndProbes
  <2>1. /\ phase' = "add"
        /\ answers' \in SUBSET answers /\ OnePerIdentity(answers')
    BY <1>1 DEF EndProbes
  <2> QED
    BY <2>1, KeptAsReturned
<1>2. ASSUME NEW e \in Endpoints, Probe(e)
      PROVE  /\ phase' = "probe"
             /\ \/ UNCHANGED Scan!callVars
                \/ \E a \in [at : Scanned, board : Boards] : Scan!Hear(a)
  <2>1. phase' = "probe" /\ e \in Scanned /\ e \in toProbe
    BY <1>2 DEF Probe, TypeOK
  <2>2. CASE UNCHANGED answers
    BY <2>1, <2>2 DEF Scan!callVars, AsHeard
  <2>3. CASE /\ place[e] # None
             /\ answers' = answers \union {[endpoint |-> e, board |-> place[e]]}
    <3> DEFINE a == [at |-> e, board |-> place[e]]
    <3>1. a \in [at : Scanned, board : Boards]
      <4>1. place[e] \in Boards
        BY <2>3, PlaceType
      <4>2. e \in Scanned
        BY <2>1
      <4> QED
        BY <4>1, <4>2, Zenon
    <3>2. AsHeard(answers)' = AsHeard(answers) \union {a}
      <4> DEFINE added == [endpoint |-> e, board |-> place[e]]
      <4>1. AsHeard(answers \union {added}) = AsHeard(answers) \union {a}
        <5>1. added.endpoint = e /\ added.board = place[e]
          OBVIOUS
        <5> HIDE DEF added
        <5> QED
          BY <5>1 DEF AsHeard
      <4>2. AsHeard(answers)' = AsHeard(answers \union {added})
        BY <2>3 DEF AsHeard
      <4> QED
        BY <4>1, <4>2
    <3>3. a \notin AsHeard(answers)
      <4>1. \A b \in answers : b.endpoint # e
        BY <2>1 DEF ProbesInvariant
      <4> QED
        BY <4>1 DEF AsHeard
    <3>4. Scan!Hear(a)
      BY <2>1, <3>2, <3>3 DEF Scan!Hear
    <3> QED
      BY <2>1, <3>1, <3>4
  <2> QED
    BY <1>2, <2>2, <2>3, <2>1 DEF Probe
<1>3. CASE MoveBoards \/ \E e \in Endpoints : SessionEstablished(e)
  BY <1>3 DEF MoveBoards, SessionEstablished, Scan!callVars, AsHeard
<1>4. CASE \/ ConnectPrimary \/ EndScan \/ PollBoard \/ EndRound \/ Wake
           \/ \E a \in answers : SkipAnswer(a) \/ AddBoard(a)
  BY <1>4 DEF ConnectPrimary, EndScan, PollBoard, EndRound, Wake, SkipAnswer,
     AddBoard, NextAnswer
<1> QED
  BY <1>1, <1>2, <1>3, <1>4 DEF Next, MainThread

(* In every network the fleet takes from a scan what ScanCall promises,    *)
(* and what ScanKeepsItsPromise proves of the scanner.                     *)
THEOREM FleetTakesScanCall == Spec => TakesScanCall
<1>1. Init => ProbesInvariant
  BY DEF Init, ProbesInvariant
<1>2. TypeOK /\ ProbesInvariant /\ [Next]_vars => ProbesInvariant'
  BY ProbesStep
<1>3. TypeOK /\ ProbesInvariant /\ [Next]_vars =>
        [phase = "probe" =>
           IF phase' = "probe"
             THEN [\E a \in [at : Scanned, board : Boards] : Scan!Hear(a)]_(Scan!callVars)
             ELSE Scan!OneOfEach(AsHeard(answers'), AsHeard(answers))]_vars
  BY ScanCallStep
<1> QED
  BY <1>1, <1>2, <1>3, TypeCorrect, PTL DEF Spec, TakesScanCall
=============================================================================
