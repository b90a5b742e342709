--------------------------- MODULE RealtimeDecode ---------------------------
(***************************************************************************)
(* The Refloat realtime frame (protocol.py) and what a control command     *)
(* reads from it (models.py, bridge.py).  The frame does not name its      *)
(* values: the decoder lays the id list it has cached over the bytes, and  *)
(* the list may be missing or that of a package that was replaced since.   *)
(* The alerts lie behind the values, so the list decides where they are    *)
(* looked for.                                                             *)
(*                                                                         *)
(* The fields of fixed size in front of the values are one record here;    *)
(* what follows them is a sequence of bytes, read section by section.      *)
(***************************************************************************)
EXTENDS Integers, Sequences

CONSTANTS
  Packages,   \* the id lists a board's package may announce
  Bytes,      \* the bytes values are made of
  Alarms,     \* the alert sections a board may send
  Speed,      \* the value id "motor.speed"
  FastAbove,  \* the bits of the greatest speed below the control limit
  None

Lists == [realtime : Seq(STRING), runtime : Seq(STRING)]

(* _cached_refloat_ids before the first answer.                            *)
NoIds == [realtime |-> <<>>, runtime |-> <<>>]

AlarmSize == 9
ChargingSize == 4

ASSUME PackageAssumption ==
  /\ Packages \subseteq Lists
  /\ Packages # {}

ASSUME ByteAssumption ==
  /\ Bytes \subseteq 0 .. 255
  /\ Alarms \subseteq [1 .. AlarmSize -> 0 .. 255]

ASSUME SpeedAssumption ==
  /\ FastAbove \in Nat
  /\ None \notin Seq(0 .. 255)

VARIABLES
  package,  \* the id lists of the package the board runs
  ids,      \* _cached_refloat_ids
  frame,    \* the frame the board sent last
  stage,    \* the section that is decoded next, or how the decoding ended
  offset,   \* Buffer.offset, from the first value on
  speed,    \* realtime_values.get("motor.speed")
  alerts    \* alerts_active

vars == <<package, ids, frame, stage, offset, speed, alerts>>

-----------------------------------------------------------------------------
(* The board.                                                              *)

Masks == [runtime : BOOLEAN, charging : BOOLEAN, alerts : BOOLEAN]

(* The bytes the sections in front of the alerts take with these lists.    *)
RuntimeWidth(lists, mask) == IF mask.runtime THEN 2 * Len(lists.runtime) ELSE 0
ChargingWidth(mask) == IF mask.charging THEN ChargingSize ELSE 0
Width(lists, mask) ==
  2 * Len(lists.realtime) + RuntimeWidth(lists, mask) + ChargingWidth(mask)

AlarmOf(mask) == IF mask.alerts THEN Alarms ELSE {<<>>}

IsFrame(f) ==
  /\ f.package \in Packages
  /\ f.mask \in Masks
  /\ f.running \in BOOLEAN
  /\ f.data \in [1 .. Width(f.package, f.mask) -> Bytes]
  /\ f.alarm \in AlarmOf(f.mask)

Body == frame.data \o frame.alarm

Init ==
  /\ package \in Packages
  /\ ids = NoIds
  /\ frame = None
  /\ stage = "idle" /\ offset = 0
  /\ speed = None /\ alerts = FALSE

(* Another package is loaded: its lists are others, and nobody is told.    *)
Reflash ==
  /\ stage \in {"idle", "done", "raised"}
  /\ package' \in Packages \ {package}
  /\ UNCHANGED <<ids, frame, stage, offset, speed, alerts>>

(* get_refloat_ids answered                                                *)
ReadIds ==
  /\ stage = "idle"
  /\ ids' = package
  /\ UNCHANGED <<package, frame, stage, offset, speed, alerts>>

-----------------------------------------------------------------------------
(* get_refloat_realtime_from_payload                                       *)

(* The fixed fields are read; the board sent any frame of its package.     *)
ReadHeader ==
  /\ stage = "idle"
  /\ \E mask \in Masks, running \in BOOLEAN :
       \E data \in [1 .. Width(package, mask) -> Bytes], alarm \in AlarmOf(mask) :
         frame' = [package |-> package, mask |-> mask, running |-> running,
                   data |-> data, alarm |-> alarm]
  /\ stage' = "realtime"
  /\ UNCHANGED <<package, ids, offset, speed, alerts>>

(* Mutant: the size is compared with the whole payload.                    *)
RequireWhole(size) == size <= Len(Body)

(* Buffer.require                                                          *)
Require(size) == offset + size <= Len(Body)

Half(at) == SubSeq(Body, at + 1, at + 2)

(* The value of an id in a list read from here on: with the same id twice,  *)
(* the later entry of the dictionary stays.                                *)
Places(list) == {i \in DOMAIN list : list[i] = Speed}
LastPlace(list) == CHOOSE i \in Places(list) : \A j \in Places(list) : j <= i
ValueOfSpeed(list) ==
  IF Places(list) = {} THEN None ELSE Half(offset + 2 * (LastPlace(list) - 1))

Raise ==
  /\ stage' = "raised"
  /\ UNCHANGED <<package, ids, frame, offset, speed, alerts>>

ReadRealtime ==
  /\ stage = "realtime"
  /\ LET size == 2 * Len(ids.realtime)
     IN  \/ /\ Require(size)
            /\ speed' = ValueOfSpeed(ids.realtime)
            /\ offset' = offset + size
            /\ stage' = "runtime"
            /\ UNCHANGED <<package, ids, frame, alerts>>
         \/ ~Require(size) /\ Raise

(* Mutant: the runtime values are read whatever the mask says.             *)
RuntimeAlways == 2 * Len(ids.runtime)

RuntimeSize == RuntimeWidth(ids, frame.mask)

Skip(size, next) ==
  \/ /\ Require(size)
     /\ offset' = offset + size
     /\ stage' = next
     /\ UNCHANGED <<package, ids, frame, speed, alerts>>
  \/ ~Require(size) /\ Raise

ReadRuntime == stage = "runtime" /\ Skip(RuntimeSize, "charging")

ReadCharging == stage = "charging" /\ Skip(ChargingWidth(frame.mask), "alerts")

(* Mutant: the fault code, the last of the nine bytes, is forgotten.       *)
AlertsWithoutFault(section) ==
  \E i \in DOMAIN section : i < AlarmSize /\ section[i] # 0

(* alerts_active: one of the two masks or the fault code is not zero.      *)
AlertsActive(section) == \E i \in DOMAIN section : section[i] # 0

(* What is left of the payload behind the alerts is ignored.               *)
ReadAlerts ==
  /\ stage = "alerts"
  /\ LET size == IF frame.mask.alerts THEN AlarmSize ELSE 0
     IN  \/ /\ Require(size)
            /\ alerts' = AlertsActive(SubSeq(Body, offset + 1, offset + size))
            /\ offset' = offset + size
            /\ stage' = "done"
            /\ UNCHANGED <<package, ids, frame, speed>>
         \/ ~Require(size) /\ Raise

(* The snapshot is thrown away, and the next poll asks again.              *)
NextPoll ==
  /\ stage \in {"done", "raised"}
  /\ stage' = "idle" /\ frame' = None /\ offset' = 0
  /\ speed' = None /\ alerts' = FALSE
  /\ UNCHANGED <<package, ids>>

-----------------------------------------------------------------------------
(* What _validate_control_snapshot reads of a decoded frame.               *)

(* Mutant: the sign bit is taken for speed.                                *)
SignedMagnitude(half) == half[1] * 256 + half[2]

(* Half floats grow with their bits, the sign apart; abs(), the conversion *)
(* to mph and the rounding keep the order.  Infinity and NaN of IEEE are   *)
(* large numbers for _decode_refloat_float16.                              *)
Magnitude(half) == (half[1] % 128) * 256 + half[2]

SpeedClass(half) ==
  IF half = None THEN "unknown"
  ELSE IF Magnitude(half) > FastAbove THEN "fast" ELSE "slow"

Next ==
  \/ Reflash \/ ReadIds
  \/ ReadHeader \/ ReadRealtime \/ ReadRuntime \/ ReadCharging \/ ReadAlerts
  \/ NextPoll

Spec == Init /\ [][Next]_vars
=============================================================================
