-------------------------- MODULE MCOnewheelBridge --------------------------
(***************************************************************************)
(* Small boards for TLC.  CAN 1 is the Thor (motor controller and Refloat),*)
(* CAN 2 the BMS.                                                          *)
(***************************************************************************)
EXTENDS OnewheelBridgeProperties

Still == [running |-> FALSE, speed |-> "slow", alerts |-> FALSE]
Riding == [running |-> TRUE, speed |-> "fast", alerts |-> FALSE]
Rolling == [running |-> FALSE, speed |-> "fast", alerts |-> FALSE]

Parked ==
  [link |-> "up", nodes |-> {1, 2}, controllers |-> {1}, refloats |-> {1},
   bms |-> 2, fault |-> FALSE, profile |-> "supported", ride |-> Still]
Ridden == [Parked EXCEPT !.ride = Riding]
Pushed == [Parked EXCEPT !.ride = Rolling]
Flaky == [Parked EXCEPT !.link = "flaky"]
FlakyRidden == [Ridden EXCEPT !.link = "flaky"]
Off == [Ridden EXCEPT !.link = "down"]
BmsMoved == [Parked EXCEPT !.nodes = {1, 3}, !.bms = 3]
NoController == [Pushed EXCEPT !.controllers = {}]
FlakyOther == [Parked EXCEPT !.link = "flaky", !.profile = "unsupported"]
Moved ==
  [Parked EXCEPT !.controllers = {1, 2}, !.refloats = {2}, !.bms = 1,
                 !.profile = "unsupported"]

FlakyRide == {Flaky, FlakyRidden}
ParkedOnly == {Parked}
Swapped == {Parked, BmsMoved, FlakyOther}
ComeAndGo == {NoController, Moved, Off}
=============================================================================
