------------------------ MODULE RealtimeDecode_proofs ------------------------
(***************************************************************************)
(* Proofs about RealtimeDecode for all packages, value bytes and alerts.   *)
(***************************************************************************)
EXTENDS RealtimeDecodeProperties, SequenceTheorems, WellFoundedInduction,
        TLAPS

Byte == 0 .. 255
Reading == {"realtime", "runtime", "charging", "alerts"}

(* How far the decoder is: the sections it has passed, with the widths the *)
(* cached lists give them, and what it found there.                        *)
Needed == Width(ids, frame.mask) + Len(frame.alarm)

OffsetOK ==
  /\ stage = "realtime" => offset = 0
  /\ stage = "runtime" => offset = 2 * Len(ids.realtime)
  /\ stage = "charging" => offset = 2 * Len(ids.realtime) + RuntimeSize
  /\ stage = "alerts" => offset = Width(ids, frame.mask)
  /\ stage = "done" => offset = Needed
  /\ stage = "raised" => Needed > Len(Body)

(* The speed is the half float at the last place the list has for it.      *)
SpeedAt(list) ==
  IF Places(list) = {} THEN None ELSE Half(2 * (LastPlace(list) - 1))

FoundOK ==
  /\ stage \in {"runtime", "charging", "alerts", "done"} =>
       /\ 2 * Len(ids.realtime) <= Len(Body)
       /\ speed = SpeedAt(ids.realtime)
  /\ stage = "done" =>
       alerts = AlertsActive(SubSeq(Body, Width(ids, frame.mask) + 1, Needed))

DecodeInvariant == TypeOK /\ OffsetOK /\ FoundOK

-----------------------------------------------------------------------------
(* The lists and the bytes of a frame.                                     *)

(* The widths of a list are natural numbers, those of no list the least.   *)
LEMMA WidthFacts ==
  ASSUME NEW l \in Packages \union {NoIds}, NEW m \in Masks
  PROVE  /\ l.realtime \in Seq(STRING) /\ l.runtime \in Seq(STRING)
         /\ Len(l.realtime) \in Nat /\ Len(l.runtime) \in Nat
         /\ 2 * Len(l.realtime) \in Nat
         /\ RuntimeWidth(l, m) \in Nat /\ ChargingWidth(m) \in Nat
         /\ Width(l, m) \in Nat
<1>1. l.realtime \in Seq(STRING) /\ l.runtime \in Seq(STRING)
  <2>1. CASE l = NoIds
    <3>1. l.realtime = <<>> /\ l.runtime = <<>>
      BY <2>1 DEF NoIds
    <3> QED
      BY <3>1
  <2>2. CASE l \in Packages
    BY <2>2, PackageAssumption DEF PackageAssumption, Lists
  <2> QED
    BY <2>1, <2>2
<1>2. Len(l.realtime) \in Nat /\ Len(l.runtime) \in Nat
  BY <1>1, LenProperties
<1>3. RuntimeWidth(l, m) \in Nat
  BY <1>2 DEF RuntimeWidth
<1>4. ChargingWidth(m) \in Nat
  BY DEF ChargingWidth, ChargingSize
<1>5. 2 * Len(l.realtime) \in Nat
  BY <1>2
<1>6. Width(l, m) \in Nat
  BY <1>3, <1>4, <1>5 DEF Width
<1> QED
  BY <1>1, <1>2, <1>3, <1>4, <1>5, <1>6

(* Bytes in a row are a sequence of bytes.                                 *)
LEMMA BytesInARow ==
  ASSUME NEW n \in Nat, NEW f \in [1 .. n -> Byte]
  PROVE  f \in Seq(Byte)
OBVIOUS

(* A part of a sequence of bytes has the bytes of its place.               *)
LEMMA PartFacts ==
  ASSUME NEW s \in Seq(Byte), NEW a \in Nat, NEW n \in Nat, a + n <= Len(s)
  PROVE  /\ SubSeq(s, a + 1, a + n) \in [1 .. n -> Byte]
         /\ \A i \in 1 .. n : SubSeq(s, a + 1, a + n)[i] = s[a + i]
<1>1. Len(s) \in Nat /\ DOMAIN s = 1 .. Len(s)
  OBVIOUS
<1>2. SubSeq(s, a + 1, a + n) = [i \in 1 .. n |-> s[a + i]]
  BY <1>1
<1>3. \A i \in 1 .. n : a + i \in 1 .. Len(s)
  BY <1>1
<1>4. \A i \in 1 .. n : s[a + i] \in Byte
  BY <1>1, <1>3, ElementOfSeq
<1> QED
  BY <1>2, <1>4

(* A frame is as long as the board's lists say, and the alerts come last.  *)
LEMMA BodyFacts ==
  ASSUME NEW f, IsFrame(f)
  PROVE  /\ f.package \in Packages /\ f.mask \in Masks
         /\ f.data \in Seq(Byte) /\ f.alarm \in Seq(Byte)
         /\ Len(f.data) = Width(f.package, f.mask)
         /\ Len(f.alarm) = (IF f.mask.alerts THEN AlarmSize ELSE 0)
         /\ f.data \o f.alarm \in Seq(Byte)
         /\ Len(f.data \o f.alarm) = Len(f.data) + Len(f.alarm)
         /\ \A i \in 1 .. Len(f.data) : (f.data \o f.alarm)[i] = f.data[i]
         /\ \A i \in 1 .. Len(f.alarm) :
              (f.data \o f.alarm)[Len(f.data) + i] = f.alarm[i]
<1>1. f.package \in Packages /\ f.mask \in Masks
  BY DEF IsFrame
<1>2. Width(f.package, f.mask) \in Nat
  BY <1>1, WidthFacts
<1>3. f.data \in [1 .. Width(f.package, f.mask) -> Byte]
  BY ByteAssumption DEF IsFrame, Byte
<1>4. f.data \in Seq(Byte) /\ Len(f.data) = Width(f.package, f.mask)
  BY <1>2, <1>3
<1>5. f.alarm \in Seq(Byte) /\ Len(f.alarm) = (IF f.mask.alerts THEN AlarmSize ELSE 0)
  <2>1. CASE f.mask.alerts
    <3>1. f.alarm \in [1 .. AlarmSize -> Byte]
      BY <2>1, ByteAssumption DEF IsFrame, AlarmOf, Byte
    <3>2. AlarmSize \in Nat
      BY DEF AlarmSize
    <3> QED
      BY <2>1, <3>1, <3>2
  <2>2. CASE ~f.mask.alerts
    <3>1. f.alarm = <<>>
      BY <2>2 DEF IsFrame, AlarmOf
    <3> QED
      BY <2>2, <3>1
  <2> QED
    BY <2>1, <2>2
<1>6. /\ f.data \o f.alarm \in Seq(Byte)
      /\ Len(f.data \o f.alarm) = Len(f.data) + Len(f.alarm)
      /\ \A i \in 1 .. Len(f.data) : (f.data \o f.alarm)[i] = f.data[i]
      /\ \A i \in 1 .. Len(f.alarm) :
           (f.data \o f.alarm)[Len(f.data) + i] = f.alarm[i]
  <2> DEFINE d == f.data
             a == f.alarm
  <2>1. d \in Seq(Byte) /\ a \in Seq(Byte)
    BY <1>4, <1>5
  <2>2. /\ d \o a \in Seq(Byte)
        /\ Len(d \o a) = Len(d) + Len(a)
        /\ \A i \in 1 .. Len(d) + Len(a) :
             (d \o a)[i] = IF i <= Len(d) THEN d[i] ELSE a[i - Len(d)]
    BY <2>1, ConcatProperties
  <2>3. Len(d) \in Nat /\ Len(a) \in Nat
    BY <2>1, LenProperties
  <2> HIDE DEF d, a
  <2>4. ASSUME NEW i \in 1 .. Len(d) PROVE (d \o a)[i] = d[i]
    BY <2>2, <2>3
  <2>5. ASSUME NEW i \in 1 .. Len(a) PROVE (d \o a)[Len(d) + i] = a[i]
    <3>1. /\ Len(d) + i \in 1 .. Len(d) + Len(a)
          /\ ~(Len(d) + i <= Len(d))
          /\ (Len(d) + i) - Len(d) = i
      BY <2>3
    <3> QED
      BY <2>2, <3>1
  <2>6. /\ d \o a \in Seq(Byte)
        /\ Len(d \o a) = Len(d) + Len(a)
        /\ \A i \in 1 .. Len(d) : (d \o a)[i] = d[i]
        /\ \A i \in 1 .. Len(a) : (d \o a)[Len(d) + i] = a[i]
    BY <2>2, <2>4, <2>5
  <2> QED
    BY <2>6 DEF d, a
<1> QED
  BY <1>1, <1>4, <1>5, <1>6

(* A place of the speed in a list is an index of it.                       *)
LEMMA PlaceFacts ==
  ASSUME NEW l \in Seq(STRING), Places(l) # {}
  PROVE  LastPlace(l) \in 1 .. Len(l)
<1> DEFINE Behind == {Len(l) - i : i \in Places(l)}
<1>1. Places(l) \subseteq 1 .. Len(l) /\ Len(l) \in Nat
  BY DEF Places
<1>2. Behind \subseteq Nat /\ Behind # {}
  BY <1>1
<1>3. PICK n \in Behind : \A m \in Behind : n <= m
  <2> DEFINE Less == {ss \in Nat \X Nat : ss[1] < ss[2]}
  <2>1. IsWellFoundedOn(Less, Nat)
    BY NatLessThanWellFounded, Zenon DEF OpToRel
  <2> HIDE DEF Less
  <2>2. PICK n \in Behind : \A m \in Behind : ~(<<m, n>> \in Less)
    BY <1>2, <2>1, WFMin
  <2>3. ASSUME NEW m \in Behind PROVE n <= m
    <3>1. m \in Nat /\ n \in Nat
      BY <1>2
    <3>2. ~(m < n)
      BY <2>2, <3>1 DEF Less
    <3> QED
      BY <3>1, <3>2
  <2> QED
    BY <2>3
<1>4. PICK i \in Places(l) : n = Len(l) - i
  BY <1>3
<1>5. \A j \in Places(l) : j <= i
  <2>1. TAKE j \in Places(l)
  <2>2. Len(l) - j \in Behind
    BY <2>1
  <2>3. Len(l) - i <= Len(l) - j
    BY <1>3, <1>4, <2>2
  <2> QED
    BY <1>1, <1>4, <2>1, <2>3
<1>6. LastPlace(l) \in Places(l)
  BY <1>4, <1>5 DEF LastPlace
<1> QED
  BY <1>1, <1>6

(* The speed that ReadRealtime finds is the one at its place in the list,  *)
(* and two bytes.                                                          *)
LEMMA SpeedFacts ==
  ASSUME NEW l \in Seq(STRING), Body \in Seq(Byte), 2 * Len(l) <= Len(Body)
  PROVE  /\ offset = 0 => ValueOfSpeed(l) = SpeedAt(l)
         /\ SpeedAt(l) \in [1 .. 2 -> Byte] \union {None}
<1>1. CASE Places(l) = {}
  BY <1>1 DEF ValueOfSpeed, SpeedAt
<1>2. CASE Places(l) # {}
  <2> DEFINE last == LastPlace(l)
  <2>1. last \in 1 .. Len(l) /\ Len(l) \in Nat /\ Len(Body) \in Nat
    BY <1>2, PlaceFacts, LenProperties
  <2>2. SpeedAt(l) = Half(2 * (last - 1))
    BY <1>2 DEF SpeedAt
  <2>3. offset = 0 => ValueOfSpeed(l) = Half(0 + 2 * (last - 1))
    BY <1>2 DEF ValueOfSpeed
  <2> HIDE DEF last
  <2>4. /\ 2 * (last - 1) \in Nat
        /\ 0 + 2 * (last - 1) = 2 * (last - 1)
        /\ 2 * (last - 1) + 2 <= Len(Body)
    BY <2>1
  <2>5. Half(2 * (last - 1)) \in [1 .. 2 -> Byte]
    BY <2>4, PartFacts DEF Half
  <2> QED
    BY <2>2, <2>3, <2>4, <2>5
<1> QED
  BY <1>1, <1>2

-----------------------------------------------------------------------------
(* The invariant.                                                          *)

(* Before a frame only the types count.                                    *)
LEMMA IdleHolds ==
  ASSUME stage = "idle", TypeOK PROVE DecodeInvariant
BY DEF DecodeInvariant, OffsetOK, FoundOK

(* Nothing has been read at the start.                                     *)
LEMMA InitHolds == Init => DecodeInvariant
<1> SUFFICES ASSUME Init PROVE DecodeInvariant
  OBVIOUS
<1>1. alerts \in BOOLEAN
  BY DEF Init
<1>2. stage = "idle" /\ TypeOK
  BY <1>1 DEF Init, TypeOK
<1> QED
  BY <1>2, IdleHolds

(* The decoder's place and what it found are those of its frame and lists. *)
LEMMA SameFrame ==
  ASSUME DecodeInvariant, UNCHANGED <<ids, frame, stage, offset, speed, alerts>>,
         package' \in Packages
  PROVE  DecodeInvariant'
<1>1. Body' = Body /\ IsFrame(frame)' = IsFrame(frame)
  BY DEF Body, IsFrame
<1>2. Needed' = Needed /\ RuntimeSize' = RuntimeSize
  BY DEF Needed, RuntimeSize
<1>3. SpeedAt(ids.realtime)' = SpeedAt(ids.realtime)
  BY <1>1 DEF SpeedAt, Half
<1>4. TypeOK'
  BY <1>1 DEF DecodeInvariant, TypeOK
<1>5. OffsetOK'
  BY <1>1, <1>2 DEF DecodeInvariant, OffsetOK
<1>6. FoundOK'
  BY <1>1, <1>2, <1>3 DEF DecodeInvariant, FoundOK
<1> QED
  BY <1>4, <1>5, <1>6 DEF DecodeInvariant

(* A new package leaves the frame and the cached lists as they are.        *)
LEMMA ReflashHolds == DecodeInvariant /\ Reflash => DecodeInvariant'
BY SameFrame DEF Reflash

(* The lists are read between two frames.                                  *)
LEMMA ReadIdsHolds == DecodeInvariant /\ ReadIds => DecodeInvariant'
BY DEF DecodeInvariant, TypeOK, OffsetOK, FoundOK, ReadIds

(* The decoding of a frame begins with the first value.                    *)
LEMMA ReadHeaderHolds == DecodeInvariant /\ ReadHeader => DecodeInvariant'
<1> SUFFICES ASSUME DecodeInvariant, ReadHeader PROVE DecodeInvariant'
  OBVIOUS
<1>1. IsFrame(frame)'
  BY DEF DecodeInvariant, TypeOK, ReadHeader, IsFrame
<1>2. stage' = "realtime" /\ offset' = 0
  BY DEF DecodeInvariant, TypeOK, ReadHeader
<1>3. Len(Body') \in Nat
  BY <1>1, BodyFacts, LenProperties DEF Body
<1>4. TypeOK'
  BY <1>1, <1>2, <1>3 DEF DecodeInvariant, TypeOK, ReadHeader
<1> QED
  BY <1>2, <1>4 DEF DecodeInvariant, OffsetOK, FoundOK

(* What is known in the middle of a frame.                                 *)
LEMMA ReadingFacts ==
  ASSUME DecodeInvariant, stage # "idle"
  PROVE  /\ IsFrame(frame) /\ frame.mask \in Masks
         /\ ids \in Packages \union {NoIds}
         /\ Body \in Seq(Byte) /\ Len(Body) \in Nat
         /\ Len(frame.alarm) \in Nat
         /\ ids.realtime \in Seq(STRING)
         /\ 2 * Len(ids.realtime) \in Nat
         /\ RuntimeWidth(ids, frame.mask) \in Nat
         /\ ChargingWidth(frame.mask) \in Nat
         /\ Width(ids, frame.mask) \in Nat
         /\ offset \in Nat
<1>1. IsFrame(frame) /\ ids \in Packages \union {NoIds} /\ offset \in Nat
  BY DEF DecodeInvariant, TypeOK
<1>2. frame.mask \in Masks /\ Body \in Seq(Byte) /\ frame.alarm \in Seq(Byte)
  BY <1>1, BodyFacts DEF Body
<1>3. Len(Body) \in Nat /\ Len(frame.alarm) \in Nat
  BY <1>2, LenProperties
<1> QED
  BY <1>1, <1>2, <1>3, WidthFacts

(* A decoder that raises needed more than there was.                       *)
LEMMA RaiseHolds ==
  ASSUME DecodeInvariant, Raise, stage \in Reading, Needed > Len(Body)
  PROVE  DecodeInvariant'
BY DEF DecodeInvariant, TypeOK, OffsetOK, FoundOK, Raise, Reading, Needed, Body,
   IsFrame

(* The values of the list are read, or the payload is too short for them.  *)
LEMMA ReadRealtimeHolds == DecodeInvariant /\ ReadRealtime => DecodeInvariant'
<1> SUFFICES ASSUME DecodeInvariant, ReadRealtime PROVE DecodeInvariant'
  OBVIOUS
<1> DEFINE size == 2 * Len(ids.realtime)
<1>1. stage = "realtime" /\ offset = 0
  BY DEF ReadRealtime, DecodeInvariant, OffsetOK
<1>2. CASE Require(size) /\ offset' = offset + size /\ stage' = "runtime"
           /\ speed' = ValueOfSpeed(ids.realtime)
           /\ UNCHANGED <<package, ids, frame, alerts>>
  <2>1. offset' = size /\ size <= Len(Body)
    BY <1>1, <1>2, ReadingFacts DEF Require
  <2>2. speed' = SpeedAt(ids.realtime)
        /\ speed' \in [1 .. 2 -> Byte] \union {None}
    BY <1>1, <1>2, <2>1, ReadingFacts, SpeedFacts
  <2>3. Body' = Body /\ IsFrame(frame)'
    BY <1>1, <1>2, ReadingFacts DEF Body, IsFrame
  <2>4. TypeOK'
    BY <1>1, <1>2, <2>1, <2>2, <2>3, ReadingFacts
       DEF DecodeInvariant, TypeOK, Byte
  <2>5. OffsetOK'
    BY <1>2, <2>1 DEF OffsetOK
  <2>6. SpeedAt(ids.realtime)' = SpeedAt(ids.realtime)
    BY <1>2, <2>3 DEF SpeedAt, Half
  <2>7. FoundOK'
    BY <1>2, <2>1, <2>2, <2>3, <2>6 DEF FoundOK
  <2> QED
    BY <2>4, <2>5, <2>7 DEF DecodeInvariant
<1>3. CASE ~Require(size) /\ Raise
  <2>1. size > Len(Body)
    BY <1>1, <1>3, ReadingFacts DEF Require
  <2>2. Needed > Len(Body)
    BY <1>1, <2>1, ReadingFacts DEF Needed, Width
  <2> QED
    BY <1>1, <1>3, <2>2, RaiseHolds DEF Reading
<1> QED
  BY <1>2, <1>3 DEF ReadRealtime

(* Passing a section keeps what is known of the sections before it.        *)
LEMMA SkipHolds ==
  ASSUME DecodeInvariant, NEW size \in Nat, NEW next \in Reading,
         stage \in {"runtime", "charging"}, next \in {"charging", "alerts"},
         Skip(size, next),
         stage' = next => OffsetOK',
         offset + size > Len(Body) => Needed > Len(Body)
  PROVE  DecodeInvariant'
<1>1. CASE /\ Require(size) /\ offset' = offset + size /\ stage' = next
           /\ UNCHANGED <<package, ids, frame, speed, alerts>>
  <2>1. Body' = Body /\ IsFrame(frame)'
    BY <1>1, ReadingFacts DEF Body, IsFrame
  <2>2. TypeOK'
    BY <1>1, <2>1, ReadingFacts DEF DecodeInvariant, TypeOK, Require
  <2>3. SpeedAt(ids.realtime)' = SpeedAt(ids.realtime)
    BY <1>1, <2>1 DEF SpeedAt, Half
  <2>4. FoundOK'
    BY <1>1, <2>1, <2>3 DEF DecodeInvariant, FoundOK
  <2> QED
    BY <1>1, <2>2, <2>4 DEF DecodeInvariant
<1>2. CASE ~Require(size) /\ Raise
  <2>1. offset + size > Len(Body)
    BY <1>2, ReadingFacts DEF Require
  <2> QED
    BY <1>2, <2>1, RaiseHolds DEF Reading
<1> QED
  BY <1>1, <1>2 DEF Skip

(* The runtime values are passed if the mask announces them.               *)
LEMMA ReadRuntimeHolds == DecodeInvariant /\ ReadRuntime => DecodeInvariant'
<1> SUFFICES ASSUME DecodeInvariant, ReadRuntime PROVE DecodeInvariant'
  OBVIOUS
<1>1. /\ stage = "runtime" /\ Skip(RuntimeSize, "charging")
      /\ offset = 2 * Len(ids.realtime)
  BY DEF ReadRuntime, DecodeInvariant, OffsetOK
<1>2. RuntimeSize \in Nat
  BY <1>1, ReadingFacts DEF RuntimeSize
<1>3. stage' = "charging" => OffsetOK'
  BY <1>1 DEF Skip, Raise, OffsetOK, RuntimeSize
<1>4. offset + RuntimeSize > Len(Body) => Needed > Len(Body)
  <2>1. /\ RuntimeSize \in Nat /\ ChargingWidth(frame.mask) \in Nat
        /\ Len(frame.alarm) \in Nat /\ Len(Body) \in Nat /\ offset \in Nat
    BY <1>1, <1>2, ReadingFacts
  <2>2. Needed = offset + RuntimeSize + ChargingWidth(frame.mask) + Len(frame.alarm)
    BY <1>1 DEF Needed, Width, RuntimeSize
  <2> QED
    BY <2>1, <2>2
<1> QED
  BY <1>1, <1>2, <1>3, <1>4, SkipHolds DEF Reading

(* So are the two charging values.                                         *)
LEMMA ReadChargingHolds == DecodeInvariant /\ ReadCharging => DecodeInvariant'
<1> SUFFICES ASSUME DecodeInvariant, ReadCharging PROVE DecodeInvariant'
  OBVIOUS
<1> DEFINE size == ChargingWidth(frame.mask)
<1>1. /\ stage = "charging" /\ Skip(size, "alerts")
      /\ offset = 2 * Len(ids.realtime) + RuntimeWidth(ids, frame.mask)
  BY DEF ReadCharging, DecodeInvariant, OffsetOK, RuntimeSize
<1>2. offset + size = Width(ids, frame.mask) /\ size \in Nat
  BY <1>1, ReadingFacts DEF Width
<1>3. stage' = "alerts" => OffsetOK'
  BY <1>1, <1>2 DEF Skip, Raise, OffsetOK
<1>4. offset + size > Len(Body) => Needed > Len(Body)
  <2>1. Len(frame.alarm) \in Nat /\ Len(Body) \in Nat /\ offset \in Nat
    BY <1>1, ReadingFacts
  <2>2. Needed = offset + size + Len(frame.alarm)
    BY <1>2 DEF Needed
  <2> QED
    BY <1>2, <2>1, <2>2
<1> QED
  BY <1>1, <1>2, <1>3, <1>4, SkipHolds DEF Reading

(* The alerts are taken from where the cached lists say they are.          *)
LEMMA ReadAlertsHolds == DecodeInvariant /\ ReadAlerts => DecodeInvariant'
<1> SUFFICES ASSUME DecodeInvariant, ReadAlerts PROVE DecodeInvariant'
  OBVIOUS
<1> DEFINE size == IF frame.mask.alerts THEN AlarmSize ELSE 0
<1>1. stage = "alerts" /\ offset = Width(ids, frame.mask)
  BY DEF ReadAlerts, DecodeInvariant, OffsetOK
<1>2. size = Len(frame.alarm)
  BY <1>1, ReadingFacts, BodyFacts
<1>3. offset + size = Needed /\ Needed \in Nat
  BY <1>1, <1>2, ReadingFacts DEF Needed
<1>4. CASE /\ Require(size) /\ offset' = offset + size /\ stage' = "done"
           /\ alerts' = AlertsActive(SubSeq(Body, offset + 1, offset + size))
           /\ UNCHANGED <<package, ids, frame, speed>>
  <2>1. Body' = Body /\ IsFrame(frame)' /\ Needed' = Needed
    BY <1>1, <1>4, ReadingFacts DEF Body, IsFrame, Needed
  <2>2. offset' = Needed /\ Needed <= Len(Body)
    BY <1>3, <1>4 DEF Require
  <2>3. alerts' \in BOOLEAN
    BY <1>4 DEF AlertsActive
  <2>4. TypeOK'
    BY <1>1, <1>3, <1>4, <2>1, <2>2, <2>3 DEF DecodeInvariant, TypeOK
  <2>5. OffsetOK'
    BY <1>4, <2>1, <2>2 DEF OffsetOK
  <2>6. SpeedAt(ids.realtime)' = SpeedAt(ids.realtime)
    BY <1>4, <2>1 DEF SpeedAt, Half
  <2>7. alerts' = AlertsActive(SubSeq(Body, Width(ids, frame.mask) + 1, Needed))
    BY <1>1, <1>3, <1>4
  <2>8. FoundOK'
    BY <1>1, <1>4, <2>1, <2>6, <2>7 DEF DecodeInvariant, FoundOK
  <2> QED
    BY <2>4, <2>5, <2>8 DEF DecodeInvariant
<1>5. CASE ~Require(size) /\ Raise
  <2>1. Needed > Len(Body)
    BY <1>1, <1>3, <1>5, ReadingFacts DEF Require
  <2> QED
    BY <1>1, <1>5, <2>1, RaiseHolds DEF Reading
<1> QED
  BY <1>4, <1>5 DEF ReadAlerts

(* The next poll starts afresh.                                            *)
LEMMA NextPollHolds == DecodeInvariant /\ NextPoll => DecodeInvariant'
<1> SUFFICES ASSUME DecodeInvariant, NextPoll PROVE DecodeInvariant'
  OBVIOUS
<1>1. alerts' \in BOOLEAN
  BY DEF NextPoll
<1>2. TypeOK' /\ stage' = "idle"
  BY <1>1 DEF DecodeInvariant, TypeOK, NextPoll
<1> QED
  BY <1>2 DEF DecodeInvariant, OffsetOK, FoundOK

(* The invariant depends on the variables only.                            *)
LEMMA StutterHolds == DecodeInvariant /\ UNCHANGED vars => DecodeInvariant'
<1>1. DecodeInvariant => package \in Packages
  BY DEF DecodeInvariant, TypeOK
<1> QED
  BY <1>1, SameFrame DEF vars

(* The decoder is always as far as its invariant says.                     *)
THEOREM InvariantHolds == Spec => []DecodeInvariant
<1>1. DecodeInvariant /\ [Next]_vars => DecodeInvariant'
  BY ReflashHolds, ReadIdsHolds, ReadHeaderHolds, ReadRealtimeHolds,
     ReadRuntimeHolds, ReadChargingHolds, ReadAlertsHolds, NextPollHolds,
     StutterHolds DEF Next
<1> QED
  BY <1>1, InitHolds, PTL DEF Spec

(* Every variable keeps its type, and no read passes the end of the payload *)
(* (Buffer.require), for all packages and frames.                          *)
THEOREM TypesHold == Spec => []TypeOK
<1>1. DecodeInvariant => TypeOK
  BY DEF DecodeInvariant
<1> QED
  BY <1>1, InvariantHolds, PTL

(* The decoder raises exactly when the cached lists ask for more bytes than *)
(* the frame has.                                                          *)
THEOREM RaisesExactly == Spec => []RaisesWhenTooWide
<1>1. DecodeInvariant => RaisesWhenTooWide
  BY DEF DecodeInvariant, TypeOK, OffsetOK, RaisesWhenTooWide, Needed
<1> QED
  BY <1>1, InvariantHolds, PTL

(* At the end of the frame the bytes taken for alerts are those behind the *)
(* width of the cached lists.                                              *)
LEMMA AlertsAtTheEnd ==
  ASSUME DecodeInvariant, stage = "done",
         Width(ids, frame.mask) >= Width(frame.package, frame.mask)
  PROVE  alerts = AlertsSent
<1> DEFINE a == Width(ids, frame.mask)
           n == Len(frame.alarm)
           section == SubSeq(Body, a + 1, a + n)
<1>1. /\ a \in Nat /\ n \in Nat /\ Body \in Seq(Byte) /\ Len(Body) \in Nat
      /\ IsFrame(frame)
  BY ReadingFacts
<1>2. a + n <= Len(Body) /\ alerts = AlertsActive(section)
  BY DEF DecodeInvariant, TypeOK, OffsetOK, FoundOK, Needed
<1>3. /\ Len(Body) = Len(frame.data) + n
      /\ Len(frame.data) = Width(frame.package, frame.mask)
      /\ \A i \in 1 .. n : Body[Len(frame.data) + i] = frame.alarm[i]
      /\ frame.alarm \in Seq(Byte)
  BY <1>1, BodyFacts DEF Body
<1>4. Len(frame.data) \in Nat
  BY <1>1, <1>3, BodyFacts, LenProperties
<1>5. a = Len(frame.data)
  BY <1>1, <1>2, <1>3, <1>4
<1>6. /\ section \in [1 .. n -> Byte]
      /\ \A i \in 1 .. n : section[i] = Body[a + i]
  BY <1>1, <1>2, PartFacts
<1>7. DOMAIN section = 1 .. n /\ DOMAIN frame.alarm = 1 .. n
  BY <1>3, <1>6, LenProperties
<1>8. \A i \in 1 .. n : section[i] = frame.alarm[i]
  BY <1>3, <1>5, <1>6
<1> HIDE DEF section, n, a
<1> QED
  BY <1>2, <1>7, <1>8 DEF AlertsActive, AlertsSent

(* Lists that are wide enough, whatever their names, never make value      *)
(* bytes pass for alerts nor hide alerts, for all packages and frames.     *)
THEOREM AlertsAreNotHidden == Spec => []AlertsNotHidden
<1>1. DecodeInvariant => AlertsNotHidden
  BY AlertsAtTheEnd DEF AlertsNotHidden
<1> QED
  BY <1>1, InvariantHolds, PTL

(* With the board's own lists the speed found is the one it sent.          *)
LEMMA OwnSpeed ==
  ASSUME DecodeInvariant, stage = "done", ids = frame.package
  PROVE  SpeedClass(speed) = SpeedSent
<1> DEFINE l == frame.package.realtime
           at == 2 * (LastPlace(l) - 1)
<1>1. /\ speed = SpeedAt(l) /\ 2 * Len(l) <= Len(Body)
      /\ l \in Seq(STRING) /\ Body \in Seq(Byte) /\ Len(Body) \in Nat
      /\ IsFrame(frame)
  BY ReadingFacts DEF DecodeInvariant, FoundOK
<1>2. CASE Places(l) = {}
  BY <1>1, <1>2 DEF SpeedAt, SpeedClass, SpeedSent
<1>3. CASE Places(l) # {}
  <2>1. LastPlace(l) \in 1 .. Len(l) /\ Len(l) \in Nat
    BY <1>1, <1>3, PlaceFacts, LenProperties
  <2>2. speed = SubSeq(Body, at + 1, at + 2)
    BY <1>1, <1>3 DEF SpeedAt, Half
  <2>3. /\ at \in Nat /\ at + 2 <= 2 * Len(l) /\ at + 2 <= Len(Body)
        /\ at + 1 = 2 * LastPlace(l) - 1 /\ at + 2 = 2 * LastPlace(l)
    BY <1>1, <2>1
  <2> HIDE DEF at
  <2>4. /\ SubSeq(Body, at + 1, at + 2) \in [1 .. 2 -> Byte]
        /\ \A i \in 1 .. 2 : SubSeq(Body, at + 1, at + 2)[i] = Body[at + i]
    BY <1>1, <2>3, PartFacts
  <2>5. speed # None
    <3>1. speed \in [1 .. 2 -> Byte]
      BY <2>2, <2>4
    <3>2. speed \in Seq(Byte)
      BY <3>1, BytesInARow
    <3> QED
      BY <3>2, SpeedAssumption DEF SpeedAssumption, Byte
  <2>6. 2 * Len(l) <= Len(frame.data) /\ Len(frame.data) \in Nat
    <3>1. Len(frame.data) = Width(frame.package, frame.mask)
      BY <1>1, BodyFacts
    <3>2. /\ RuntimeWidth(frame.package, frame.mask) \in Nat
          /\ ChargingWidth(frame.mask) \in Nat
          /\ Width(frame.package, frame.mask) \in Nat
      BY <1>1, BodyFacts, WidthFacts
    <3>3. Width(frame.package, frame.mask)
            = 2 * Len(l) + RuntimeWidth(frame.package, frame.mask)
                + ChargingWidth(frame.mask)
      BY DEF Width
    <3> QED
      BY <2>1, <3>1, <3>2, <3>3
  <2>7. at + 1 \in 1 .. Len(frame.data) /\ at + 2 \in 1 .. Len(frame.data)
    BY <2>1, <2>3, <2>6
  <2>8. \A i \in 1 .. Len(frame.data) : Body[i] = frame.data[i]
    BY <1>1, BodyFacts DEF Body
  <2>9. /\ speed[1] = frame.data[2 * LastPlace(l) - 1]
        /\ speed[2] = frame.data[2 * LastPlace(l)]
    BY <2>2, <2>3, <2>4, <2>7, <2>8
  <2> QED
    BY <1>3, <2>5, <2>9 DEF SpeedClass, SpeedSent, Magnitude
<1> QED
  BY <1>2, <1>3

(* No list has no place for the speed, and needs no more than any other.   *)
LEMMA NoList ==
  ASSUME NEW l \in Packages, NEW m \in Masks
  PROVE  /\ Places(NoIds.realtime) = {}
         /\ Width(NoIds, m) <= Width(l, m)
<1>1. NoIds.realtime = <<>> /\ NoIds.runtime = <<>>
  BY DEF NoIds
<1>2. Places(NoIds.realtime) = {}
  BY <1>1 DEF Places
<1>3. /\ Len(NoIds.realtime) = 0 /\ RuntimeWidth(NoIds, m) = 0
  BY <1>1 DEF RuntimeWidth
<1>4. /\ 2 * Len(l.realtime) \in Nat /\ RuntimeWidth(l, m) \in Nat
      /\ ChargingWidth(m) \in Nat
  BY WidthFacts
<1>5. Width(NoIds, m) = ChargingWidth(m)
  BY <1>3, <1>4 DEF Width
<1> QED
  BY <1>2, <1>4, <1>5 DEF Width

(* A frame is refused only because of lists of another package.            *)
LEMMA RefusedForOthers ==
  ASSUME DecodeInvariant, stage = "raised"
  PROVE  ids \notin {frame.package, NoIds}
<1>1. Needed > Len(Body)
  BY DEF DecodeInvariant, OffsetOK
<1>2. /\ IsFrame(frame) /\ Width(ids, frame.mask) \in Nat
      /\ Len(frame.alarm) \in Nat
      /\ Len(Body) = Width(frame.package, frame.mask) + Len(frame.alarm)
  BY ReadingFacts, BodyFacts DEF Body
<1>3. Width(frame.package, frame.mask) \in Nat
  BY <1>2, BodyFacts, WidthFacts
<1>4. Width(ids, frame.mask) > Width(frame.package, frame.mask)
  BY <1>1, <1>2, <1>3 DEF Needed
<1>5. ids # frame.package
  BY <1>2, <1>4
<1>6. ids # NoIds
  <2>1. Width(NoIds, frame.mask) <= Width(frame.package, frame.mask)
    BY <1>2, BodyFacts, NoList
  <2> QED
    BY <1>2, <1>3, <1>4, <2>1
<1> QED
  BY <1>5, <1>6

(* The decoder gives what the core assumes of a realtime read, for all     *)
(* packages, values and alerts.                                            *)
THEOREM ReadsAsAssumed == Spec => []ReadAsTheCoreAssumes
<1>1. ASSUME DecodeInvariant PROVE ReadAsTheCoreAssumes
  <2>1. ASSUME stage = "done", ids = frame.package
        PROVE  SpeedClass(speed) = SpeedSent /\ alerts = AlertsSent
    <3>1. Width(ids, frame.mask) \in Nat
      BY <1>1, <2>1, ReadingFacts
    <3> QED
      BY <1>1, <2>1, <3>1, OwnSpeed, AlertsAtTheEnd
  <2>2. ASSUME stage = "done", ids = NoIds PROVE SpeedClass(speed) = "unknown"
    <3>1. speed = SpeedAt(NoIds.realtime) /\ IsFrame(frame)
      BY <1>1, <2>2 DEF DecodeInvariant, TypeOK, FoundOK
    <3>2. Places(NoIds.realtime) = {}
      BY <3>1, BodyFacts, NoList
    <3> QED
      BY <3>1, <3>2 DEF SpeedAt, SpeedClass
  <2> QED
    BY <1>1, <2>1, <2>2, RefusedForOthers DEF ReadAsTheCoreAssumes
<1> QED
  BY <1>1, InvariantHolds, PTL
=============================================================================
