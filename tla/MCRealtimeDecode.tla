-------------------------- MODULE MCRealtimeDecode --------------------------
(***************************************************************************)
(* Small packages for TLC: the speed first, last, missing and twice, with   *)
(* lists of different widths and different lists of one width.             *)
(***************************************************************************)
EXTENDS RealtimeDecodeProperties

Lists3 ==
  {[realtime |-> <<"speed">>, runtime |-> <<>>],
   [realtime |-> <<"pitch", "speed">>, runtime |-> <<"amps">>],
   [realtime |-> <<"speed", "pitch">>, runtime |-> <<>>],
   [realtime |-> <<"speed", "speed">>, runtime |-> <<>>],
   [realtime |-> <<"pitch">>, runtime |-> <<"amps">>]}

Alarm(i) == [j \in 1 .. AlarmSize |-> IF j = i THEN 1 ELSE 0]

(* No alert, one in each of the two masks, and a fault.                    *)
OneAtATime == {Alarm(0), Alarm(4), Alarm(5), Alarm(9)}
=============================================================================
