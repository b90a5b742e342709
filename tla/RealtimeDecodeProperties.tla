---------------------- MODULE RealtimeDecodeProperties ----------------------
(***************************************************************************)
(* What a decoded realtime frame says of the board that sent it, and what  *)
(* OnewheelBridge takes for granted of it (Decoded, SureRealtimeNodes).    *)
(***************************************************************************)
EXTENDS RealtimeDecode

(* Every variable keeps its type; nothing is read beyond the payload.      *)
TypeOK ==
  /\ package \in Packages
  /\ ids \in Packages \union {NoIds}
  /\ stage \in {"idle", "realtime", "runtime", "charging", "alerts", "done",
                "raised"}
  /\ offset \in Nat
  /\ IF stage = "idle" THEN frame = None /\ offset = 0
     ELSE IsFrame(frame) /\ offset <= Len(Body)
  /\ speed \in [1 .. 2 -> 0 .. 255] \union {None}
  /\ alerts \in BOOLEAN

(* What the board meant: its speed value lies where its own list has it.   *)
SpeedSent ==
  LET list == frame.package.realtime
      at == 2 * LastPlace(list)
  IN  IF Places(list) = {} THEN "unknown"
      ELSE IF (frame.data[at - 1] % 128) * 256 + frame.data[at] > FastAbove
           THEN "fast"
      ELSE "slow"

AlertsSent == \E i \in DOMAIN frame.alarm : frame.alarm[i] # 0

(* With the board's own list the reading is what the board meant, and      *)
(* without a list the speed is unknown, which rejects a command            *)
(* (bridge.py 226-228); in neither case is the frame refused.  The core    *)
(* assumes this of a realtime read (Decoded and SureRealtimeNodes).        *)
ReadAsTheCoreAssumes ==
  /\ stage = "done" /\ ids = frame.package =>
       SpeedClass(speed) = SpeedSent /\ alerts = AlertsSent
  /\ stage = "done" /\ ids = NoIds => SpeedClass(speed) = "unknown"
  /\ stage = "raised" => ids \notin {frame.package, NoIds}

(* A list that is at least as wide as the board's, whatever its names, is  *)
(* no danger to the alerts: the decoder raises, or reports them as sent.   *)
(* Only a shorter list makes value bytes pass for alerts, or hides them.   *)
AlertsNotHidden ==
  stage = "done" /\ Width(ids, frame.mask) >= Width(frame.package, frame.mask) =>
    alerts = AlertsSent

(* The decoder raises exactly when the cached list needs more bytes than   *)
(* the values and the alerts of the frame have.                            *)
RaisesWhenTooWide ==
  LET needed == Width(ids, frame.mask) + Len(frame.alarm)
  IN  /\ stage = "raised" => needed > Len(Body)
      /\ stage = "done" => needed = offset /\ needed <= Len(Body)
=============================================================================
